---- MODULE Spec2Model ----
(***************************************************************************)
(* Model of the DCM surgical decision-support prototype                    *)
(* (src/unnamed/part_003, lines 520-1602: the evaluators and the Prototype *)
(* React component).                                                       *)
(*                                                                         *)
(* Numbers.  Risk and benefit scores are small integers.  Approach          *)
(* probabilities are IEEE-754 doubles; every value the evaluators can form *)
(* lies in [0, 2) and is a multiple of 2^-59, so a double is modelled      *)
(* exactly as the integer x * 2^59, held in three 20-bit limbs, and every  *)
(* sum and difference is rounded to 53 significant bits, ties to even.     *)
(***************************************************************************)
EXTENDS Integers, Sequences, FiniteSets, TLC

(***************************************************************************)
(* Bounds of the input domain.                                             *)
(***************************************************************************)
MaxMJOA == 18
MaxDuration == 12
MaxLevels == 3
MaxAge == 75

ElderlyAge == 75

Severities == {"mild", "moderate", "severe"}
T2Signals == {"none", "bright", "multilevel"}
\* the middle value is written with an en dash in the source
CanalRatios == {"<50%", "50-60%", ">60%"}
YesNo == {"yes", "no"}
Sexes == {"M", "F"}
ApproachKeys == <<"anterior", "posterior", "circumferential">>

Ages == (ElderlyAge - 1)..MaxAge

\* interface PatientInputs without the derived severity field: what the
\* caller supplies.
PatientRecords ==
  [age : Ages, sex : {"M"}, mjoa : 0..MaxMJOA, durationMonths : 0..MaxDuration,
   t2Signal : T2Signals, levels : 1..MaxLevels, canalRatio : CanalRatios,
   opll : YesNo, t1Hypo : YesNo, smoker : YesNo]

\* call by value: Only({F(v) : v \in {x}}) evaluates the argument x once and
\* applies F to its value
Only(S) == CHOOSE y \in S : TRUE

Max(a, b) == IF a >= b THEN a ELSE b
Min(a, b) == IF a <= b THEN a ELSE b

(***************************************************************************)
(* Doubles: <<a, b, c>> is (a * 2^40 + b * 2^20 + c) * 2^-59.              *)
(***************************************************************************)
Limb == 2^20

\* the doubles that the decimal literals of the source denote, by hundredths
\* (Lit[65] is the double written 0.65, Lit[10] the double written 0.1)
Lit ==
  0 :> <<0, 0, 0>> @@
  1 :> <<5242, 922746, 922747>> @@
  2 :> <<10485, 796917, 796918>> @@
  3 :> <<15728, 671088, 671088>> @@
  5 :> <<26214, 419430, 419432>> @@
  8 :> <<41943, 41943, 41944>> @@
  10 :> <<52428, 838860, 838864>> @@
  15 :> <<78643, 209715, 209712>> @@
  25 :> <<131072, 0, 0>> @@
  45 :> <<235929, 629145, 629152>> @@
  55 :> <<288358, 419430, 419456>> @@
  65 :> <<340787, 209715, 209728>> @@
  90 :> <<471859, 209715, 209728>>

DLt(x, y) ==
  \/ x[1] < y[1]
  \/ x[1] = y[1] /\ x[2] < y[2]
  \/ x[1] = y[1] /\ x[2] = y[2] /\ x[3] < y[3]

DGeq(x, y) == ~DLt(x, y)

\* the exact sum and the exact difference (x >= y) of two doubles
SumLimbs(x, y) ==
  LET c == x[3] + y[3]
      b == x[2] + y[2] + (c \div Limb)
      a == x[1] + y[1] + (b \div Limb)
  IN  <<a, b % Limb, c % Limb>>

DiffLimbs(x, y) ==
  LET c == x[3] - y[3]
      bc == IF c < 0 THEN 1 ELSE 0
      b == x[2] - y[2] - bc
      bb == IF b < 0 THEN 1 ELSE 0
  IN  <<x[1] - y[1] - bb, b + bb * Limb, c + bc * Limb>>

ExactSum(x, y) == Only({SumLimbs(v[1], v[2]) : v \in {<<x, y>>}})
ExactDiff(x, y) == Only({DiffLimbs(v[1], v[2]) : v \in {<<x, y>>}})

\* the number of low bits that do not fit in the 53-bit significand
ExcessBits(x) ==
  IF x[1] >= 2^19 THEN 7
  ELSE IF x[1] >= 2^18 THEN 6
  ELSE IF x[1] >= 2^17 THEN 5
  ELSE IF x[1] >= 2^16 THEN 4
  ELSE IF x[1] >= 2^15 THEN 3
  ELSE IF x[1] >= 2^14 THEN 2
  ELSE IF x[1] >= 2^13 THEN 1
  ELSE 0

\* round to nearest, ties to even
RoundLimbs(x) ==
  LET g == 2^ExcessBits(x)
      q == x[3] % g
      down == <<x[1], x[2], x[3] - q>>
      up == ExactSum(down, <<0, 0, g>>)
  IN  IF q = 0 THEN x
      ELSE IF 2 * q < g THEN down
      ELSE IF 2 * q > g THEN up
      ELSE IF (x[3] \div g) % 2 = 0 THEN down ELSE up

RoundDouble(x) == Only({RoundLimbs(v) : v \in {x}})

DSub(x, y) == RoundDouble(ExactDiff(x, y))

\* x += h / 100 for a literal of h hundredths (x -= the literal when h < 0)
Adjust(x, h) ==
  RoundDouble(IF h >= 0 THEN ExactSum(x, Lit[h]) ELSE ExactDiff(x, Lit[-h]))

(***************************************************************************)
(* The evaluators ("Shared logic with Python engine").                     *)
(***************************************************************************)
deriveSeverityFromMJOAStrict(mjoa) ==
  IF mjoa > 15 THEN "mild" ELSE IF mjoa > 12 THEN "moderate" ELSE "severe"

deriveSeverityFromMJOA(mjoa) ==
  IF mjoa >= 15 THEN "mild" ELSE IF mjoa >= 12 THEN "moderate" ELSE "severe"

LabelNonOp ==
  "Non-operative trial reasonable with close follow-up and structured surveillance."
RiskNonOp ==
  "Low-moderate short-term risk of neurological worsening with careful monitoring, assuming no new red-flag features develop."
BenefitNonOp ==
  "Surgical benefit may be modest in mild, stable disease. Shared decision-making is important."
LabelSurgery == "Surgery recommended"
RiskSurgery ==
  "Moderate-severe DCM with cord signal change, extended symptoms, multilevel stenosis or high canal occupying ratio carries substantial risk of progression without surgery."
BenefitSurgery ==
  "Most patients in similar cohorts gain clinically meaningful mJOA and functional improvement following decompression, with acceptable complication rates."
LabelConsider == "Consider surgery / surgery likely beneficial"
RiskConsider ==
  "Mild DCM with MRI or duration risk markers has a meaningful chance of progression over time."
BenefitConsider ==
  "Early decompression often yields clinically important improvement, but a monitored non-operative trial is reasonable if symptoms are stable and the patient prefers to delay surgery."

classifyRiskGroupNoMultilevel(p, severity) ==
  LET hasCordSignal == p.t2Signal = "bright" \/ p.t2Signal = "multilevel"
      longSymptoms == p.durationMonths >= 6
      highCanal == p.canalRatio = ">60%"
  IN  IF severity \in {"moderate", "severe"}
         /\ (hasCordSignal \/ longSymptoms \/ highCanal)
      THEN [label |-> LabelSurgery, risk |-> RiskSurgery, benefit |-> BenefitSurgery]
      ELSE IF severity = "mild" /\ (hasCordSignal \/ longSymptoms \/ highCanal)
      THEN [label |-> LabelConsider, risk |-> RiskConsider, benefit |-> BenefitConsider]
      ELSE [label |-> LabelNonOp, risk |-> RiskNonOp, benefit |-> BenefitNonOp]

classifyRiskGroupSwapped(p, severity) ==
  LET hasCordSignal == p.t2Signal = "bright" \/ p.t2Signal = "multilevel"
      longSymptoms == p.durationMonths >= 6
      highCanal == p.canalRatio = ">60%"
      multilevel == p.levels >= 3
  IN  IF severity \in {"moderate", "severe"}
         /\ (hasCordSignal \/ longSymptoms \/ highCanal \/ multilevel)
      THEN [label |-> LabelSurgery, risk |-> RiskSurgery, benefit |-> BenefitSurgery]
      ELSE IF severity = "mild" /\ (hasCordSignal \/ longSymptoms \/ multilevel)
      THEN [label |-> LabelConsider, risk |-> RiskConsider, benefit |-> BenefitConsider]
      ELSE [label |-> LabelNonOp, risk |-> RiskNonOp, benefit |-> BenefitNonOp]

\* variant: the first branch does not test the severity
classifyRiskGroupAnySeverity(p, severity) ==
  LET hasCordSignal == p.t2Signal = "bright" \/ p.t2Signal = "multilevel"
      longSymptoms == p.durationMonths >= 6
      highCanal == p.canalRatio = ">60%"
      multilevel == p.levels >= 3
  IN  IF hasCordSignal \/ longSymptoms \/ highCanal \/ multilevel
      THEN [label |-> LabelSurgery, risk |-> RiskSurgery, benefit |-> BenefitSurgery]
      ELSE IF severity = "mild" /\ (hasCordSignal \/ longSymptoms \/ highCanal)
      THEN [label |-> LabelConsider, risk |-> RiskConsider, benefit |-> BenefitConsider]
      ELSE [label |-> LabelNonOp, risk |-> RiskNonOp, benefit |-> BenefitNonOp]

classifyRiskGroup(p, severity) ==
  LET hasCordSignal == p.t2Signal = "bright" \/ p.t2Signal = "multilevel"
      longSymptoms == p.durationMonths >= 6
      highCanal == p.canalRatio = ">60%"
      multilevel == p.levels >= 3
  IN  IF severity \in {"moderate", "severe"}
         /\ (hasCordSignal \/ longSymptoms \/ highCanal \/ multilevel)
      THEN [label |-> LabelSurgery, risk |-> RiskSurgery, benefit |-> BenefitSurgery]
      ELSE IF severity = "mild" /\ (hasCordSignal \/ longSymptoms \/ highCanal)
      THEN [label |-> LabelConsider, risk |-> RiskConsider, benefit |-> BenefitConsider]
      ELSE [label |-> LabelNonOp, risk |-> RiskNonOp, benefit |-> BenefitNonOp]

baselineMCIDBySeverity(severity) ==
  IF severity = "mild" THEN Lit[65]
  ELSE IF severity = "moderate" THEN Lit[55] ELSE Lit[45]

DMax(x, y) ==
  Only({IF DGeq(v[1], v[2]) THEN v[1] ELSE v[2] : v \in {<<x, y>>}})
DMin(x, y) ==
  Only({IF DGeq(v[2], v[1]) THEN v[1] ELSE v[2] : v \in {<<x, y>>}})

\* variant: the clamp bounds written as percentages, 25 and 90
ClampProbPercentUnits(x) ==
  DMax(<<25 * 2^19, 0, 0>>, DMin(<<90 * 2^19, 0, 0>>, x))

\* Math.max(0.25, Math.min(0.9, x))
ClampProb(x) == DMax(Lit[25], DMin(Lit[90], x))

\* probs after anterior += dA, posterior += dP, circumferential += dC, the
\* deltas in hundredths
AddProbs(probs, dA, dP, dC) ==
  Only({[anterior |-> Adjust(v.anterior, dA),
         posterior |-> Adjust(v.posterior, dP),
         circumferential |-> Adjust(v.circumferential, dC)] : v \in {probs}})

\* variant: the long-symptom downshift is applied to OPLL records as well
AdjustmentsForLongAnyOpll(p, severity) ==
  LET hasCordSignal == p.t2Signal = "bright" \/ p.t2Signal = "multilevel"
      multilevel == p.levels >= 3
      longSymptoms == p.durationMonths >= 6
      veryLong == p.durationMonths >= 12
      highCanal == p.canalRatio = ">60%"
      midCanal == p.canalRatio = "50-60%"
      hasOPLL == p.opll = "yes"
      elderly == p.age >= ElderlyAge
      highBurden == elderly \/ p.smoker = "yes" \/ p.t1Hypo = "yes" \/ hasCordSignal
  IN  (IF severity = "mild" /\ ~hasOPLL /\ ~multilevel /\ ~highCanal
       THEN << <<5, 0, -2>> >> ELSE <<>>)
      \o (IF multilevel \/ veryLong THEN << <<-2, 5, 2>> >> ELSE <<>>)
      \o (IF hasOPLL
          THEN IF highCanal THEN << <<10, 3, 0>> >>
               ELSE IF midCanal THEN << <<3, 3, 0>> >>
               ELSE << <<2, 5, 0>> >>
          ELSE <<>>)
      \o (IF p.t2Signal = "multilevel" THEN << <<-1, 3, 1>> >> ELSE <<>>)
      \o (IF longSymptoms /\ severity \in {"moderate", "severe"}
          THEN << <<-1, -1, 0>> >> ELSE <<>>)
      \o (IF highBurden THEN << <<-3, -3, -3>> >> ELSE <<>>)

\* variant: the high-canal OPLL deltas of anterior and posterior exchanged
AdjustmentsForOpllHighSwapped(p, severity) ==
  LET hasCordSignal == p.t2Signal = "bright" \/ p.t2Signal = "multilevel"
      multilevel == p.levels >= 3
      longSymptoms == p.durationMonths >= 6
      veryLong == p.durationMonths >= 12
      highCanal == p.canalRatio = ">60%"
      midCanal == p.canalRatio = "50-60%"
      hasOPLL == p.opll = "yes"
      elderly == p.age >= ElderlyAge
      highBurden == elderly \/ p.smoker = "yes" \/ p.t1Hypo = "yes" \/ hasCordSignal
  IN  (IF severity = "mild" /\ ~hasOPLL /\ ~multilevel /\ ~highCanal
       THEN << <<5, 0, -2>> >> ELSE <<>>)
      \o (IF multilevel \/ veryLong THEN << <<-2, 5, 2>> >> ELSE <<>>)
      \o (IF hasOPLL
          THEN IF highCanal THEN << <<3, 10, 0>> >>
               ELSE IF midCanal THEN << <<3, 3, 0>> >>
               ELSE << <<2, 5, 0>> >>
          ELSE <<>>)
      \o (IF p.t2Signal = "multilevel" THEN << <<-1, 3, 1>> >> ELSE <<>>)
      \o (IF longSymptoms /\ ~hasOPLL /\ severity \in {"moderate", "severe"}
          THEN << <<-1, -1, 0>> >> ELSE <<>>)
      \o (IF highBurden THEN << <<-3, -3, -3>> >> ELSE <<>>)

\* variant: the multilevel / very-long deltas of posterior and circumferential
\* exchanged
AdjustmentsForCircumferentialFavoured(p, severity) ==
  LET hasCordSignal == p.t2Signal = "bright" \/ p.t2Signal = "multilevel"
      multilevel == p.levels >= 3
      longSymptoms == p.durationMonths >= 6
      veryLong == p.durationMonths >= 12
      highCanal == p.canalRatio = ">60%"
      midCanal == p.canalRatio = "50-60%"
      hasOPLL == p.opll = "yes"
      elderly == p.age >= ElderlyAge
      highBurden == elderly \/ p.smoker = "yes" \/ p.t1Hypo = "yes" \/ hasCordSignal
  IN  (IF severity = "mild" /\ ~hasOPLL /\ ~multilevel /\ ~highCanal
       THEN << <<5, 0, -2>> >> ELSE <<>>)
      \o (IF multilevel \/ veryLong THEN << <<-2, 2, 5>> >> ELSE <<>>)
      \o (IF hasOPLL
          THEN IF highCanal THEN << <<10, 3, 0>> >>
               ELSE IF midCanal THEN << <<3, 3, 0>> >>
               ELSE << <<2, 5, 0>> >>
          ELSE <<>>)
      \o (IF p.t2Signal = "multilevel" THEN << <<-1, 3, 1>> >> ELSE <<>>)
      \o (IF longSymptoms /\ ~hasOPLL /\ severity \in {"moderate", "severe"}
          THEN << <<-1, -1, 0>> >> ELSE <<>>)
      \o (IF highBurden THEN << <<-3, -3, -3>> >> ELSE <<>>)

\* the adjustments that apply to the record, in the order of the source:
\* <<dA, dP, dC>> is anterior += dA, posterior += dP, circumferential += dC
\* in hundredths (0 where the source leaves the key alone: x + 0.0 = x)
AdjustmentsFor(p, severity) ==
  LET hasCordSignal == p.t2Signal = "bright" \/ p.t2Signal = "multilevel"
      multilevel == p.levels >= 3
      longSymptoms == p.durationMonths >= 6
      veryLong == p.durationMonths >= 12
      highCanal == p.canalRatio = ">60%"
      midCanal == p.canalRatio = "50-60%"
      hasOPLL == p.opll = "yes"
      elderly == p.age >= ElderlyAge
      highBurden == elderly \/ p.smoker = "yes" \/ p.t1Hypo = "yes" \/ hasCordSignal
  IN  (IF severity = "mild" /\ ~hasOPLL /\ ~multilevel /\ ~highCanal
       THEN << <<5, 0, -2>> >> ELSE <<>>)
      \o (IF multilevel \/ veryLong THEN << <<-2, 5, 2>> >> ELSE <<>>)
      \o (IF hasOPLL
          THEN IF highCanal THEN << <<10, 3, 0>> >>
               ELSE IF midCanal THEN << <<3, 3, 0>> >>
               ELSE << <<2, 5, 0>> >>
          ELSE <<>>)
      \o (IF p.t2Signal = "multilevel" THEN << <<-1, 3, 1>> >> ELSE <<>>)
      \o (IF longSymptoms /\ ~hasOPLL /\ severity \in {"moderate", "severe"}
          THEN << <<-1, -1, 0>> >> ELSE <<>>)
      \o (IF highBurden THEN << <<-3, -3, -3>> >> ELSE <<>>)

RECURSIVE ApplyAdjustments(_, _, _)
ApplyAdjustments(probs, ds, i) ==
  IF i > Len(ds) THEN probs
  ELSE ApplyAdjustments(AddProbs(probs, ds[i][1], ds[i][2], ds[i][3]), ds, i + 1)

ClampAll(probs) == [k \in DOMAIN probs |-> ClampProb(probs[k])]

approachMCIDAdjustments(p, severity, baseProb) ==
  Only({ClampAll(probs) :
          probs \in {ApplyAdjustments(
                       [anterior |-> v[1], posterior |-> v[1],
                        circumferential |-> Adjust(v[1], -3)], v[2], 1) :
                     v \in {<<baseProb, AdjustmentsFor(p, severity)>>}}})

\* Object.keys / Object.values of an approach mapping: declared key order
ObjectKeys(o) == SelectSeq(ApproachKeys, LAMBDA k : k \in DOMAIN o)
ObjectValues(o) == [i \in 1..Len(ObjectKeys(o)) |-> o[ObjectKeys(o)[i]]]

\* Array.prototype.sort((a, b) => b - a): stable, descending
RECURSIVE InsertDesc(_, _)
InsertDesc(s, x) ==
  IF s = <<>> THEN <<x>>
  ELSE IF DGeq(Head(s), x) THEN <<Head(s)>> \o InsertDesc(Tail(s), x)
  ELSE <<x>> \o s

RECURSIVE SortDesc(_)
SortDesc(s) ==
  IF s = <<>> THEN <<>>
  ELSE InsertDesc(SortDesc(SubSeq(s, 1, Len(s) - 1)), s[Len(s)])

\* variant: the tiers are cut at 0.10 and 0.05
UncertaintyOfDeltaLowAt10(delta) ==
  IF DGeq(delta, Lit[10]) THEN "low"
  ELSE IF DGeq(delta, Lit[5]) THEN "moderate" ELSE "high"

UncertaintyOfDelta(delta) ==
  IF DGeq(delta, Lit[15]) THEN "low"
  ELSE IF DGeq(delta, Lit[8]) THEN "moderate" ELSE "high"

\* variant: the delta is taken between the second and the third value
UncertaintyOfSortedLastTwo(vals) ==
  IF Len(vals) < 2 THEN "high"
  ELSE Only({UncertaintyOfDelta(delta) : delta \in {DSub(vals[2], vals[Len(vals)])}})

UncertaintyOfSorted(vals) ==
  IF Len(vals) < 2 THEN "high"
  ELSE Only({UncertaintyOfDelta(delta) : delta \in {DSub(vals[1], vals[2])}})

computeUncertaintyLevel(approachRes) ==
  Only({UncertaintyOfSorted(vals) : vals \in {SortDesc(ObjectValues(approachRes))}})

\* the additive sums of estimateRiskBenefit before the final clamp
RiskBenefitSumsSevere80(p, severity) ==
  LET base == IF severity = "mild" THEN <<20, 40>>
              ELSE IF severity = "moderate" THEN <<40, 65>> ELSE <<80, 80>>
      dur == IF p.durationMonths >= 12 THEN <<5, 3>>
             ELSE IF p.durationMonths < 3 THEN <<-3, 2>> ELSE <<0, 0>>
      t2 == IF p.t2Signal = "bright" THEN <<5, 3>>
            ELSE IF p.t2Signal = "multilevel" THEN <<10, 5>> ELSE <<0, 0>>
      canal == IF p.canalRatio = ">60%" THEN <<5, 3>> ELSE <<0, 0>>
      opll == IF p.opll = "yes" THEN <<3, 2>> ELSE <<0, 0>>
  IN  [risk |-> base[1] + dur[1] + t2[1] + canal[1] + opll[1],
       benefit |-> base[2] + dur[2] + t2[2] + canal[2] + opll[2]]

RiskBenefitSumsShortBelow6(p, severity) ==
  LET base == IF severity = "mild" THEN <<20, 40>>
              ELSE IF severity = "moderate" THEN <<40, 65>> ELSE <<60, 80>>
      dur == IF p.durationMonths >= 12 THEN <<5, 3>>
             ELSE IF p.durationMonths < 6 THEN <<-3, 2>> ELSE <<0, 0>>
      t2 == IF p.t2Signal = "bright" THEN <<5, 3>>
            ELSE IF p.t2Signal = "multilevel" THEN <<10, 5>> ELSE <<0, 0>>
      canal == IF p.canalRatio = ">60%" THEN <<5, 3>> ELSE <<0, 0>>
      opll == IF p.opll = "yes" THEN <<3, 2>> ELSE <<0, 0>>
  IN  [risk |-> base[1] + dur[1] + t2[1] + canal[1] + opll[1],
       benefit |-> base[2] + dur[2] + t2[2] + canal[2] + opll[2]]

RiskBenefitSums(p, severity) ==
  LET base == IF severity = "mild" THEN <<20, 40>>
              ELSE IF severity = "moderate" THEN <<40, 65>> ELSE <<60, 80>>
      dur == IF p.durationMonths >= 12 THEN <<5, 3>>
             ELSE IF p.durationMonths < 3 THEN <<-3, 2>> ELSE <<0, 0>>
      t2 == IF p.t2Signal = "bright" THEN <<5, 3>>
            ELSE IF p.t2Signal = "multilevel" THEN <<10, 5>> ELSE <<0, 0>>
      canal == IF p.canalRatio = ">60%" THEN <<5, 3>> ELSE <<0, 0>>
      opll == IF p.opll = "yes" THEN <<3, 2>> ELSE <<0, 0>>
  IN  [risk |-> base[1] + dur[1] + t2[1] + canal[1] + opll[1],
       benefit |-> base[2] + dur[2] + t2[2] + canal[2] + opll[2]]

estimateRiskBenefitAsPercent(p, severity) ==
  LET s == RiskBenefitSums(p, severity)
  IN  [riskScore |-> 100 * Max(5, Min(95, s.risk)),
       benefitScore |-> 100 * Max(10, Min(95, s.benefit))]

estimateRiskBenefit(p, severity) ==
  LET s == RiskBenefitSums(p, severity)
  IN  [riskScore |-> Max(5, Min(95, s.risk)),
       benefitScore |-> Max(10, Min(95, s.benefit))]

(***************************************************************************)
(* Text.  A JavaScript string is modelled as a sequence of tokens: a word  *)
(* (a maximal run of non-blank, non-separator characters, kept as a TLA+   *)
(* string), or one of the single characters space, comma and newline.      *)
(***************************************************************************)
NL == "\n"
Comma == ","
Space == " "

IsSpace(t) == t = Space \/ t = NL

\* String.prototype.trim
RECURSIVE TrimLeft(_)
TrimLeft(toks) ==
  IF toks # <<>> /\ IsSpace(Head(toks)) THEN TrimLeft(Tail(toks)) ELSE toks

RECURSIVE TrimRight(_)
TrimRight(toks) ==
  IF toks # <<>> /\ IsSpace(toks[Len(toks)])
  THEN TrimRight(SubSeq(toks, 1, Len(toks) - 1)) ELSE toks

Trim(toks) == TrimRight(TrimLeft(toks))

\* String.prototype.split(sep) for a one-character separator: always at
\* least one piece, empty pieces kept
RECURSIVE SplitFrom(_, _, _, _, _)
SplitFrom(toks, i, sep, done, cur) ==
  IF i > Len(toks) THEN Append(done, cur)
  ELSE IF toks[i] = sep THEN SplitFrom(toks, i + 1, sep, Append(done, cur), <<>>)
  ELSE SplitFrom(toks, i + 1, sep, done, Append(cur, toks[i]))

Split(toks, sep) == SplitFrom(toks, 1, sep, <<>>, <<>>)

\* the characters of a token sequence as one string
RECURSIVE Join(_)
Join(toks) == IF toks = <<>> THEN "" ELSE Head(toks) \o Join(Tail(toks))

\* String.prototype.toLowerCase on the words of the vocabulary
LowerWord(w) ==
  CASE w = "Age" -> "age"
    [] w = "MJOA" -> "mjoa"
    [] w = "Opll" -> "opll"
    [] w = "YES" -> "yes"
    [] w = "Yes" -> "yes"
    [] w = "No" -> "no"
    [] w = "Bright" -> "bright"
    [] OTHER -> w

ToLowerCase(toks) == Join([i \in 1..Len(toks) |-> LowerWord(toks[i])])

\* Number(s) || dflt: Number("") is 0 and Number of a non-numeric string (or
\* of undefined) is NaN, both falsy; a decimal numeral gives its value
MaxNumeral == 99

NumeralValue ==
  [w \in {ToString(n) : n \in 1..MaxNumeral} |->
     CHOOSE n \in 1..MaxNumeral : ToString(n) = w]

NumberOr(s, dflt) == IF s \in DOMAIN NumeralValue THEN NumeralValue[s] ELSE dflt

\* String.prototype.startsWith on the three labels of classifyRiskGroup
StartsWith(s, prefix) ==
  \/ s = prefix
  \/ s = LabelConsider /\ prefix = "Consider surgery"
  \/ s = LabelNonOp /\ prefix = "Non-operative trial reasonable"

\* Array.prototype.indexOf, 1-based, 0 when absent (JavaScript: -1)
IndexOf(seq, x) ==
  IF \E i \in 1..Len(seq) : seq[i] = x
  THEN CHOOSE i \in 1..Len(seq) : seq[i] = x /\ \A j \in 1..(i - 1) : seq[j] # x
  ELSE 0

\* Object.entries(appr).sort((a, b) => b[1] - a[1]): stable, descending by value
ObjectEntries(o) == [i \in 1..Len(ObjectKeys(o)) |-> <<ObjectKeys(o)[i], o[ObjectKeys(o)[i]]>>]

\* variant: an entry is placed before the entries of equal value
RECURSIVE InsertEntryDescUnstable(_, _)
InsertEntryDescUnstable(s, e) ==
  IF s = <<>> THEN <<e>>
  ELSE IF DLt(e[2], Head(s)[2])
       THEN <<Head(s)>> \o InsertEntryDescUnstable(Tail(s), e)
  ELSE <<e>> \o s

RECURSIVE InsertEntryDesc(_, _)
InsertEntryDesc(s, e) ==
  IF s = <<>> THEN <<e>>
  ELSE IF DGeq(Head(s)[2], e[2]) THEN <<Head(s)>> \o InsertEntryDesc(Tail(s), e)
  ELSE <<e>> \o s

RECURSIVE SortEntriesDesc(_)
SortEntriesDesc(s) ==
  IF s = <<>> THEN <<>>
  ELSE InsertEntryDesc(SortEntriesDesc(SubSeq(s, 1, Len(s) - 1)), s[Len(s)])

\* Object.entries(appr).sort(...)[0][0]
BestOf(approachRes) == SortEntriesDesc(ObjectEntries(approachRes))[1][1]

(***************************************************************************)
(* State.  The evaluation of one patient record (patient .. rb), and the   *)
(* useState cells of the Prototype component with the locals of a          *)
(* handleBatchRun in progress (bpc, rows, r, summary).  A nullable cell is *)
(* <<>> for null and <<v>> for the value v.                                *)
(***************************************************************************)
VARIABLES patient, pc, derivedSeverity, inputs, rg, baseProb, appr, unc, rb,
          batchCsv, batchSummary, batchError, bpc, rows, r, summary,
          activeTab, age, sex, mjoa, duration, t2Signal, levels, canalRatio,
          opll, t1Hypo, smoker,
          hasRun, severity, approachResult, surgeryLabel, surgerySummary,
          riskBand, benefitBand, uncertaintyLevel, riskScore, benefitScore,
          edits, lastIn, snap,
          wholeRows, workers, merged

evalVars == <<patient, pc, derivedSeverity, inputs, rg, baseProb, appr, unc, rb>>
batchVars == <<batchCsv, batchSummary, batchError, bpc, rows, r, summary>>
formVars == <<age, sex, mjoa, duration, t2Signal, levels, canalRatio, opll,
              t1Hypo, smoker>>
resultVars == <<hasRun, severity, approachResult, surgeryLabel, surgerySummary,
                riskBand, benefitBand, uncertaintyLevel, riskScore, benefitScore>>
\* history variables: the number of edits so far, the inputs literal of the
\* last runSingleRecommendation, and the inputs and results of one earlier run
historyVars == <<edits, lastIn, snap>>
uiVars == <<activeTab, formVars, resultVars, historyVars>>
\* a batch of records divided among workers: the data rows of the whole
\* batch, the locals (rows, r, summary) of each worker's own row loop, and
\* the reduction of the summaries handed over so far
workerVars == <<wholeRows, workers, merged>>
vars == <<evalVars, batchVars, uiVars, workerVars>>

Null == "null"

ZeroSummary ==
  [total |-> 0, surgeryRecommended |-> 0, consider |-> 0, nonOp |-> 0,
   anterior |-> 0, posterior |-> 0, circumferential |-> 0]

EvalIdle ==
  /\ patient = Null
  /\ pc = "off"
  /\ derivedSeverity = Null
  /\ inputs = Null
  /\ rg = Null
  /\ baseProb = Null
  /\ appr = Null
  /\ unc = Null
  /\ rb = Null

\* the useState initial values of the single-patient view
UiInit ==
  /\ activeTab = "single"
  /\ age = "65"
  /\ sex = "M"
  /\ mjoa = "13"
  /\ severity = "moderate"
  /\ duration = "12"
  /\ t2Signal = "bright"
  /\ levels = "3"
  /\ canalRatio = "<50%"
  /\ opll = "no"
  /\ t1Hypo = "no"
  /\ smoker = "no"
  /\ hasRun = FALSE
  /\ approachResult = <<>>
  /\ surgeryLabel = ""
  /\ surgerySummary = ""
  /\ riskBand = ""
  /\ benefitBand = ""
  /\ uncertaintyLevel = ""
  /\ riskScore = <<>>
  /\ benefitScore = <<>>
  /\ edits = 0
  /\ lastIn = <<>>
  /\ snap = <<>>

WorkersIdle ==
  /\ wholeRows = <<>>
  /\ workers = <<>>
  /\ merged = [sum |-> ZeroSummary, from |-> {}]

BatchIdle ==
  /\ batchSummary = <<>>
  /\ batchError = <<>>
  /\ bpc = "idle"
  /\ rows = <<>>
  /\ r = 0
  /\ summary = ZeroSummary

(***************************************************************************)
(* The pipeline on one patient record, evaluator by evaluator, in the      *)
(* order of the calls in runSingleRecommendation / the batch loop body.    *)
(***************************************************************************)
InitEval ==
  /\ patient \in PatientRecords
  /\ pc = "severity"
  /\ derivedSeverity = Null
  /\ inputs = Null
  /\ rg = Null
  /\ baseProb = Null
  /\ appr = Null
  /\ unc = Null
  /\ rb = Null
  /\ batchCsv = <<>>
  /\ BatchIdle
  /\ UiInit
  /\ WorkersIdle

\* const derivedSeverity = deriveSeverityFromMJOA(mNum); const inputs = {...}
DeriveSeverity ==
  /\ pc = "severity"
  /\ derivedSeverity' = deriveSeverityFromMJOA(patient.mjoa)
  /\ inputs' = [age |-> patient.age, sex |-> patient.sex,
                severity |-> derivedSeverity', mjoa |-> patient.mjoa,
                durationMonths |-> patient.durationMonths,
                t2Signal |-> patient.t2Signal, levels |-> patient.levels,
                canalRatio |-> patient.canalRatio, opll |-> patient.opll,
                t1Hypo |-> patient.t1Hypo, smoker |-> patient.smoker]
  /\ pc' = "riskGroup"
  /\ UNCHANGED <<patient, rg, baseProb, appr, unc, rb, batchVars, uiVars, workerVars>>

ClassifyRiskGroup ==
  /\ pc = "riskGroup"
  /\ rg' = classifyRiskGroup(inputs, derivedSeverity)
  /\ pc' = "approach"
  /\ UNCHANGED <<patient, derivedSeverity, inputs, baseProb, appr, unc, rb, batchVars, uiVars, workerVars>>

ApproachMCID ==
  /\ pc = "approach"
  /\ baseProb' = baselineMCIDBySeverity(derivedSeverity)
  /\ appr' = approachMCIDAdjustments(inputs, derivedSeverity, baseProb')
  /\ pc' = "uncertainty"
  /\ UNCHANGED <<patient, derivedSeverity, inputs, rg, unc, rb, batchVars, uiVars, workerVars>>

ComputeUncertainty ==
  /\ pc = "uncertainty"
  /\ unc' = computeUncertaintyLevel(appr)
  /\ pc' = "riskBenefit"
  /\ UNCHANGED <<patient, derivedSeverity, inputs, rg, baseProb, appr, rb, batchVars, uiVars, workerVars>>

EstimateRiskBenefit ==
  /\ pc = "riskBenefit"
  /\ rb' = estimateRiskBenefit(inputs, derivedSeverity)
  /\ pc' = "done"
  /\ UNCHANGED <<patient, derivedSeverity, inputs, rg, baseProb, appr, unc, batchVars, uiVars, workerVars>>

NextEval ==
  \/ DeriveSeverity
  \/ ClassifyRiskGroup
  \/ ApproachMCID
  \/ ComputeUncertainty
  \/ EstimateRiskBenefit

SpecEval == InitEval /\ [][NextEval]_vars

(***************************************************************************)
(* computeUncertaintyLevel on its own: the argument is any mapping from a  *)
(* subset of the approach keys to probabilities in [0.25, 0.9], among them *)
(* neighbouring doubles on both sides of the two thresholds.               *)
(***************************************************************************)
\* the next double below x (x not a power of two)
PrevDouble(x) == ExactDiff(x, <<0, 0, 2^ExcessBits(x)>>)

ProbValues ==
  { Lit[25], Adjust(Lit[25], 8), PrevDouble(Adjust(Lit[25], 8)),
    Adjust(Lit[25], 15), PrevDouble(Adjust(Lit[25], 15)),
    Lit[45], Lit[55], Lit[65], Lit[90] }

ProbMappings ==
  UNION {[keys -> ProbValues] :
           keys \in SUBSET {"anterior", "posterior", "circumferential"}}

InitUncertainty ==
  /\ patient = Null
  /\ pc = "uncertainty"
  /\ derivedSeverity = Null
  /\ inputs = Null
  /\ rg = Null
  /\ baseProb = Null
  /\ appr \in ProbMappings
  /\ unc = Null
  /\ rb = Null
  /\ batchCsv = <<>>
  /\ BatchIdle
  /\ UiInit
  /\ WorkersIdle

NextUncertainty == ComputeUncertainty

SpecUncertainty == InitUncertainty /\ [][NextUncertainty]_vars

(***************************************************************************)
(* handleBatchRun.  The handler runs to completion without interleaving;   *)
(* it is split at the head of its row loop so that the state after every   *)
(* iteration is a state of the model.  Row and column indices are 1-based  *)
(* (rows[1] is the header row, the first data row is rows[2]).             *)
(***************************************************************************)
ErrNoText == "Please paste a CSV with a header row."
ErrNoRows == "CSV must include at least one data row."
ErrColumns ==
  "Required columns: age, sex, mjoa, duration_months, levels, canal_ratio, t2_signal (optional: opll, smoker)."

\* text.split(/\r?\n/).map((r) => r.split(",").map((s) => s.trim()))
ParseRows(text) ==
  LET lines == Split(text, NL)
  IN  [i \in 1..Len(lines) |->
        LET cells == Split(lines[i], Comma)
        IN  [j \in 1..Len(cells) |-> Trim(cells[j])]]

\* rows[0].map((h) => h.toLowerCase())
HeaderOf(rws) == [j \in 1..Len(rws[1]) |-> ToLowerCase(rws[1][j])]

RequiredColumns ==
  <<"age", "sex", "mjoa", "duration_months", "levels", "canal_ratio", "t2_signal">>

\* row[i]; undefined (i past the end of the row) and "" are both falsy in
\* every use the loop makes of a cell
CellToks(row, i) == IF i \in 1..Len(row) THEN row[i] ELSE <<>>

CellOr(row, i, dflt) ==
  IF Join(CellToks(row, i)) = "" THEN dflt ELSE Join(CellToks(row, i))

\* variant: the optional cells are compared with "yes" without toLowerCase()
BatchInputsCaseSensitive(row, header) ==
  LET mNum == NumberOr(Join(CellToks(row, IndexOf(header, "mjoa"))), 18)
      opllIdx == IndexOf(header, "opll")
      smokerIdx == IndexOf(header, "smoker")
  IN  [age |-> NumberOr(Join(CellToks(row, IndexOf(header, "age"))), 65),
       sex |-> CellOr(row, IndexOf(header, "sex"), "M"),
       severity |-> deriveSeverityFromMJOA(mNum),
       mjoa |-> mNum,
       durationMonths |->
         NumberOr(Join(CellToks(row, IndexOf(header, "duration_months"))), 0),
       t2Signal |-> CellOr(row, IndexOf(header, "t2_signal"), "bright"),
       levels |-> NumberOr(Join(CellToks(row, IndexOf(header, "levels"))), 1),
       canalRatio |-> CellOr(row, IndexOf(header, "canal_ratio"), "<50%"),
       opll |-> IF opllIdx # 0 /\ Join(CellToks(row, opllIdx)) = "yes"
                THEN "yes" ELSE "no",
       t1Hypo |-> "no",
       smoker |-> IF smokerIdx # 0 /\ Join(CellToks(row, smokerIdx)) = "yes"
                  THEN "yes" ELSE "no"]

\* the PatientInputs literal of the loop body
BatchInputs(row, header) ==
  LET mNum == NumberOr(Join(CellToks(row, IndexOf(header, "mjoa"))), 18)
      opllIdx == IndexOf(header, "opll")
      smokerIdx == IndexOf(header, "smoker")
  IN  [age |-> NumberOr(Join(CellToks(row, IndexOf(header, "age"))), 65),
       sex |-> CellOr(row, IndexOf(header, "sex"), "M"),
       severity |-> deriveSeverityFromMJOA(mNum),
       mjoa |-> mNum,
       durationMonths |->
         NumberOr(Join(CellToks(row, IndexOf(header, "duration_months"))), 0),
       t2Signal |-> CellOr(row, IndexOf(header, "t2_signal"), "bright"),
       levels |-> NumberOr(Join(CellToks(row, IndexOf(header, "levels"))), 1),
       canalRatio |-> CellOr(row, IndexOf(header, "canal_ratio"), "<50%"),
       opll |-> IF opllIdx # 0 /\ ToLowerCase(CellToks(row, opllIdx)) = "yes"
                THEN "yes" ELSE "no",
       t1Hypo |-> "no",
       smoker |-> IF smokerIdx # 0 /\ ToLowerCase(CellToks(row, smokerIdx)) = "yes"
                  THEN "yes" ELSE "no"]

\* variant: the labels are compared for equality with the prefixes
LabelCounterExact(label) ==
  IF label = "Surgery recommended" THEN "surgeryRecommended"
  ELSE IF label = "Consider surgery" THEN "consider"
  ELSE "nonOp"

\* the label counter a row increments
LabelCounter(label) ==
  IF StartsWith(label, "Surgery recommended") THEN "surgeryRecommended"
  ELSE IF StartsWith(label, "Consider surgery") THEN "consider"
  ELSE "nonOp"

\* summary.total += 1; the label counter += 1; summary[best] += 1
CountRowNoElse(sum, label, best) ==
  LET s1 == [sum EXCEPT !.total = @ + 1]
      s2 == IF StartsWith(label, "Surgery recommended")
            THEN [s1 EXCEPT !.surgeryRecommended = @ + 1] ELSE s1
      s3 == IF StartsWith(label, "Consider surgery")
            THEN [s2 EXCEPT !.consider = @ + 1]
            ELSE [s2 EXCEPT !.nonOp = @ + 1]
  IN  [s3 EXCEPT ![best] = @ + 1]

\* variant: summary[best] = summary.total in place of summary[best] += 1
CountRowBestIsTotal(sum, label, best) ==
  LET s1 == [sum EXCEPT !.total = @ + 1]
      s2 == [s1 EXCEPT ![LabelCounter(label)] = @ + 1]
  IN  [s2 EXCEPT ![best] = s1.total]

CountRow(sum, label, best) ==
  LET s1 == [sum EXCEPT !.total = @ + 1]
      s2 == [s1 EXCEPT ![LabelCounter(label)] = @ + 1]
  IN  [s2 EXCEPT ![best] = @ + 1]

\* variant: no row is taken for blank
IsBlankRowNever(row) == FALSE

IsBlankRow(row) == Len(row) = 0 \/ \A j \in 1..Len(row) : Join(row[j]) = ""

\* what the loop body derives from a row alone: <<>> for a blank row (skipped),
\* else the label of the row and its best approach
RowOutcome(row, header) ==
  IF IsBlankRow(row) THEN <<>>
  ELSE Only({<<classifyRiskGroup(inp, inp.severity).label,
               BestOf(approachMCIDAdjustments(inp, inp.severity,
                        baselineMCIDBySeverity(inp.severity)))>> :
               inp \in {BatchInputs(row, header)}})

\* the loop as a function of the outcomes of its rows: the summary after the
\* iterations i, ..., Len(outcomes), started from sum
RECURSIVE RunRows(_, _, _)
RunRows(outcomes, i, sum) ==
  IF i > Len(outcomes) THEN sum
  ELSE Only({RunRows(outcomes, i + 1, s) :
               s \in {IF outcomes[i] = <<>> THEN sum
                      ELSE CountRow(sum, outcomes[i][1], outcomes[i][2])}})

\* the outcomes of the data rows of a pasted text
OutcomesOf(text) ==
  Only({[i \in 1..(Len(rws) - 1) |-> RowOutcome(rws[i + 1], HeaderOf(rws))] :
          rws \in {ParseRows(Trim(text))}})

\* variant: an early return leaves the summary of an earlier run in place
handleBatchRunNoReset ==
  /\ bpc = "idle"
  /\ \E text \in {Trim(batchCsv)} :
       \E rws \in {ParseRows(text)} :
         LET fail(msg) == /\ batchError' = <<msg>>
                          /\ UNCHANGED <<batchSummary, bpc, rows, r, summary>>
         IN  IF text = <<>> THEN fail(ErrNoText)
             ELSE IF Len(rws) < 2 THEN fail(ErrNoRows)
             ELSE \E header \in {HeaderOf(rws)} :
                    IF \E i \in 1..Len(RequiredColumns) :
                         IndexOf(header, RequiredColumns[i]) = 0
                    THEN fail(ErrColumns)
                    ELSE /\ batchError' = <<>>
                         /\ batchSummary' = <<>>
                         /\ bpc' = "loop"
                         /\ rows' = rws
                         /\ r' = 2
                         /\ summary' = ZeroSummary
  /\ UNCHANGED <<batchCsv, evalVars, uiVars, workerVars>>

\* variant: the error of an earlier run is not cleared when the text is accepted
handleBatchRunKeepsError ==
  /\ bpc = "idle"
  /\ \E text \in {Trim(batchCsv)} :
       \E rws \in {ParseRows(text)} :
         LET fail(msg) == /\ batchError' = <<msg>>
                          /\ batchSummary' = <<>>
                          /\ UNCHANGED <<bpc, rows, r, summary>>
         IN  IF text = <<>> THEN fail(ErrNoText)
             ELSE IF Len(rws) < 2 THEN fail(ErrNoRows)
             ELSE \E header \in {HeaderOf(rws)} :
                    IF \E i \in 1..Len(RequiredColumns) :
                         IndexOf(header, RequiredColumns[i]) = 0
                    THEN fail(ErrColumns)
                    ELSE /\ UNCHANGED batchError
                         /\ batchSummary' = <<>>
                         /\ bpc' = "loop"
                         /\ rows' = rws
                         /\ r' = 2
                         /\ summary' = ZeroSummary
  /\ UNCHANGED <<batchCsv, evalVars, uiVars, workerVars>>

\* from the click to the head of the row loop, or to an early return
handleBatchRun ==
  /\ bpc = "idle"
  /\ \E text \in {Trim(batchCsv)} :
       \E rws \in {ParseRows(text)} :
         LET fail(msg) == /\ batchError' = <<msg>>
                          /\ batchSummary' = <<>>
                          /\ UNCHANGED <<bpc, rows, r, summary>>
         IN  IF text = <<>> THEN fail(ErrNoText)
             ELSE IF Len(rws) < 2 THEN fail(ErrNoRows)
             ELSE \E header \in {HeaderOf(rws)} :
                    IF \E i \in 1..Len(RequiredColumns) :
                         IndexOf(header, RequiredColumns[i]) = 0
                    THEN fail(ErrColumns)
                    ELSE /\ batchError' = <<>>
                         /\ batchSummary' = <<>>
                         /\ bpc' = "loop"
                         /\ rows' = rws
                         /\ r' = 2
                         /\ summary' = ZeroSummary
  /\ UNCHANGED <<batchCsv, evalVars, uiVars, workerVars>>

\* one iteration of for (let r = 1; r < rows.length; r++)
BatchLoopRow ==
  /\ bpc = "loop"
  /\ r <= Len(rows)
  /\ IF IsBlankRow(rows[r]) THEN UNCHANGED summary
     ELSE \E inp \in {BatchInputs(rows[r], HeaderOf(rows))} :
            \E rgRow \in {classifyRiskGroup(inp, inp.severity)} :
              \E apprRow \in {approachMCIDAdjustments(inp, inp.severity,
                                baselineMCIDBySeverity(inp.severity))} :
                summary' = CountRow(summary, rgRow.label, BestOf(apprRow))
  /\ r' = r + 1
  /\ UNCHANGED <<batchCsv, batchSummary, batchError, bpc, rows, evalVars, uiVars, workerVars>>

\* loop exit: setBatchSummary(summary)
BatchLoopEnd ==
  /\ bpc = "loop"
  /\ r > Len(rows)
  /\ batchSummary' = <<summary>>
  /\ bpc' = "idle"
  /\ rows' = <<>>
  /\ r' = 0
  /\ summary' = ZeroSummary
  /\ UNCHANGED <<batchCsv, batchError, evalVars, uiVars, workerVars>>

(***************************************************************************)
(* Batch inputs: a header line and up to MaxRows data lines.               *)
(***************************************************************************)
MaxRows == 3

RECURSIVE JoinWith(_, _)
JoinWith(parts, sep) ==
  IF parts = <<>> THEN <<>>
  ELSE IF Len(parts) = 1 THEN parts[1]
  ELSE parts[1] \o <<sep>> \o JoinWith(Tail(parts), sep)

HeaderLines ==
  { <<"age", Comma, "sex", Comma, "mjoa", Comma, "duration_months", Comma,
      "levels", Comma, "canal_ratio", Comma, "t2_signal", Comma, "opll",
      Comma, "smoker">>,
    <<"age", Comma, "sex", Comma, "mjoa", Comma, "duration_months", Comma,
      "levels", Comma, "canal_ratio", Comma, "t2_signal">>,
    <<"Age", Comma, Space, "sex", Space, Comma, "MJOA", Comma,
      "duration_months", Comma, "levels", Comma, "canal_ratio", Comma,
      "t2_signal", Comma, "Opll">>,
    <<"age", Comma, "sex", Comma, "mjoa", Comma, "levels", Comma,
      "canal_ratio", Comma, "t2_signal", Comma, "opll", Comma, "smoker">> }

DataLines ==
  { <<"65", Comma, "M", Comma, "13", Comma, "12", Comma, "3", Comma, "<50%",
      Comma, "bright", Comma, "no", Comma, "no">>,
    <<"65", Comma, "M", Comma, "16", Comma, "2", Comma, "1", Comma, "<50%",
      Comma, "none", Comma, "no", Comma, "no">>,
    <<"65", Comma, "M", Comma, "16", Comma, "8", Comma, "1", Comma, "<50%",
      Comma, "bright", Comma, "no", Comma, "no">>,
    <<"80", Comma, "F", Comma, Space, "10", Comma, "12", Comma, "3", Comma,
      ">60%", Comma, "multilevel", Comma, "YES", Comma, "yes">>,
    <<"70", Comma, "F", Comma, "13", Comma, "2", Comma, "1", Comma, "50-60%",
      Comma, "none">>,
    <<"abc", Comma, Comma, "0", Comma, Comma, "x", Comma, Comma, "Bright">>,
    <<>>,
    <<Space>>,
    <<Comma, Comma, Space, Comma>> }

RECURSIVE SeqsUpTo(_, _)
SeqsUpTo(S, n) ==
  IF n = 0 THEN {<<>>}
  ELSE LET shorter == SeqsUpTo(S, n - 1)
       IN  shorter \cup {Append(q, x) : q \in shorter, x \in S}

BatchTexts ==
  {<<>>, <<Space, NL>>}
    \cup {JoinWith(<<h>> \o ls, NL) : h \in HeaderLines, ls \in SeqsUpTo(DataLines, MaxRows)}

InitBatch ==
  /\ EvalIdle
  /\ batchCsv \in BatchTexts
  /\ BatchIdle
  /\ UiInit
  /\ WorkersIdle

NextBatch ==
  \/ handleBatchRun
  \/ BatchLoopRow
  \/ BatchLoopEnd

SpecBatch == InitBatch /\ [][NextBatch]_vars

(***************************************************************************)
(* The row loop run by several workers.  The data rows of a batch are      *)
(* divided among the workers; each worker runs the row loop of             *)
(* handleBatchRun on its own rows with its own r and summary (both are     *)
(* locals of one call), the workers' iterations interleave in any order,   *)
(* and a worker that has left its loop hands its summary over to a         *)
(* reduction that adds it, counter by counter, to the summaries handed     *)
(* over before, in whatever order the workers finish.                      *)
(***************************************************************************)
Workers == {"w1", "w2"}

WorkerHeader ==
  <<"age", "sex", "mjoa", "duration_months", "levels", "canal_ratio",
    "t2_signal", "opll", "smoker">>

\* a data row of each label, and a blank row
WorkerLines ==
  { <<"65", Comma, "M", Comma, "13", Comma, "12", Comma, "3", Comma, "<50%",
      Comma, "bright", Comma, "no", Comma, "no">>,
    <<"65", Comma, "M", Comma, "16", Comma, "2", Comma, "1", Comma, "<50%",
      Comma, "none", Comma, "no", Comma, "no">>,
    <<"65", Comma, "M", Comma, "16", Comma, "8", Comma, "1", Comma, "<50%",
      Comma, "bright", Comma, "no", Comma, "no">>,
    <<Comma, Comma, Space, Comma>> }

WorkerRows == {ParseRows(line)[1] : line \in WorkerLines}

\* the rows of q at the positions that assign gives to worker w, in order
RECURSIVE SubBatch(_, _, _, _)
SubBatch(q, assign, w, i) ==
  IF i > Len(q) THEN <<>>
  ELSE (IF assign[i] = w THEN <<q[i]>> ELSE <<>>) \o SubBatch(q, assign, w, i + 1)

InitWorkers ==
  /\ EvalIdle
  /\ batchCsv = <<>>
  /\ BatchIdle
  /\ UiInit
  /\ wholeRows \in SeqsUpTo(WorkerRows, MaxRows) \ {<<>>}
  /\ \E assign \in [1..Len(wholeRows) -> Workers] :
       workers = [w \in {assign[i] : i \in 1..Len(wholeRows)} |->
                    [rows |-> SubBatch(wholeRows, assign, w, 1), r |-> 1,
                     summary |-> ZeroSummary]]
  /\ merged = [sum |-> ZeroSummary, from |-> {}]

\* variant: the workers update one summary object that they all share
WorkerRowSharedSummary(w) ==
  /\ w \in DOMAIN workers
  /\ workers[w].r <= Len(workers[w].rows)
  /\ \E o \in {RowOutcome(workers[w].rows[workers[w].r], WorkerHeader)} :
       \E s \in {IF o = <<>> THEN workers[w].summary
                  ELSE CountRow(workers[w].summary, o[1], o[2])} :
         workers' = [v \in DOMAIN workers |->
                      IF v = w THEN [workers[v] EXCEPT !.r = @ + 1, !.summary = s]
                      ELSE IF workers[v].r <= Len(workers[v].rows)
                      THEN [workers[v] EXCEPT !.summary = s]
                      ELSE workers[v]]
  /\ UNCHANGED <<wholeRows, merged, evalVars, batchVars, uiVars>>

\* one iteration of worker w's row loop
WorkerRow(w) ==
  /\ w \in DOMAIN workers
  /\ workers[w].r <= Len(workers[w].rows)
  /\ \E o \in {RowOutcome(workers[w].rows[workers[w].r], WorkerHeader)} :
       workers' = [workers EXCEPT
                     ![w].r = @ + 1,
                     ![w].summary = IF o = <<>> THEN @ ELSE CountRow(@, o[1], o[2])]
  /\ UNCHANGED <<wholeRows, merged, evalVars, batchVars, uiVars>>

\* the sum, counter by counter, of two summaries
SumSummaries(a, b) == [k \in DOMAIN a |-> a[k] + b[k]]

\* worker w has left its loop and hands its summary over
WorkerHandOver(w) ==
  /\ w \in DOMAIN workers
  /\ workers[w].r > Len(workers[w].rows)
  /\ w \notin merged.from
  /\ merged' = [sum |-> SumSummaries(merged.sum, workers[w].summary),
                from |-> merged.from \cup {w}]
  /\ UNCHANGED <<wholeRows, workers, evalVars, batchVars, uiVars>>

NextWorkers ==
  \/ \E w \in Workers : WorkerRow(w)
  \/ \E w \in Workers : WorkerHandOver(w)

SpecWorkers == InitWorkers /\ [][NextWorkers]_vars

(***************************************************************************)
(* The Prototype component: the form, runSingleRecommendation and the      *)
(* batch view.  The fields psych, gait, ndi, sf36pcs and sf36mcs are read  *)
(* by no handler and are left out.  A handler runs to completion, so no    *)
(* other handler starts while a handleBatchRun is in its loop.             *)
(***************************************************************************)
MaxEdits == 2

AgeTexts == {"65", "80"}
MjoaTexts == {"13", "16", "0", "abc"}
DurationTexts == {"12", "2", ""}
LevelsTexts == {"3", "1"}
Tabs == {"single", "batch"}

UiBatchTexts ==
  { <<>>,
    <<"age", Comma, "sex", Comma, "mjoa", Comma, "duration_months", Comma,
      "levels", Comma, "canal_ratio", Comma, "t2_signal", NL,
      "65", Comma, "M", Comma, "13", Comma, "12", Comma, "3", Comma, "<50%",
      Comma, "bright", NL,
      "65", Comma, "M", Comma, "16", Comma, "8", Comma, "1", Comma, "<50%",
      Comma, "bright">>,
    <<"age", Comma, "sex", Comma, "mjoa", NL, "65", Comma, "M", Comma, "13">>,
    <<"age", Comma, "sex", Comma, "mjoa", Comma, "duration_months", Comma,
      "levels", Comma, "canal_ratio", Comma, "t2_signal", NL,
      "65", Comma, "M", Comma, "13", Comma, "2", Comma, "1", Comma, "<50%",
      Comma, "bright", NL,
      "65", Comma, "M", Comma, "13", Comma, "12", Comma, "3", Comma, "<50%",
      Comma, "multilevel">> }

CanEdit == bpc = "idle" /\ edits < MaxEdits

setActiveTab(tab) ==
  /\ bpc = "idle"
  /\ activeTab' = tab
  /\ UNCHANGED <<formVars, resultVars, historyVars, batchVars, evalVars, workerVars>>

setAge(v) ==
  /\ CanEdit
  /\ v # age
  /\ age' = v
  /\ edits' = edits + 1
  /\ UNCHANGED <<sex, mjoa, duration, t2Signal, levels, canalRatio, opll, t1Hypo, smoker>>
  /\ UNCHANGED <<activeTab, resultVars, lastIn, snap, batchVars, evalVars, workerVars>>

setSex(v) ==
  /\ CanEdit
  /\ v # sex
  /\ sex' = v
  /\ edits' = edits + 1
  /\ UNCHANGED <<age, mjoa, duration, t2Signal, levels, canalRatio, opll, t1Hypo, smoker>>
  /\ UNCHANGED <<activeTab, resultVars, lastIn, snap, batchVars, evalVars, workerVars>>

\* variant: the mJOA field derives the severity as it is typed
setMjoaDerivesSeverity(v) ==
  /\ CanEdit
  /\ v # mjoa
  /\ mjoa' = v
  /\ severity' = deriveSeverityFromMJOA(NumberOr(v, 18))
  /\ edits' = edits + 1
  /\ UNCHANGED <<age, sex, duration, t2Signal, levels, canalRatio, opll, t1Hypo, smoker>>
  /\ UNCHANGED <<hasRun, approachResult, surgeryLabel, surgerySummary, riskBand,
                 benefitBand, uncertaintyLevel, riskScore, benefitScore>>
  /\ UNCHANGED <<activeTab, lastIn, snap, batchVars, evalVars, workerVars>>

setMjoa(v) ==
  /\ CanEdit
  /\ v # mjoa
  /\ mjoa' = v
  /\ edits' = edits + 1
  /\ UNCHANGED <<age, sex, duration, t2Signal, levels, canalRatio, opll, t1Hypo, smoker>>
  /\ UNCHANGED <<activeTab, resultVars, lastIn, snap, batchVars, evalVars, workerVars>>

setDuration(v) ==
  /\ CanEdit
  /\ v # duration
  /\ duration' = v
  /\ edits' = edits + 1
  /\ UNCHANGED <<age, sex, mjoa, t2Signal, levels, canalRatio, opll, t1Hypo, smoker>>
  /\ UNCHANGED <<activeTab, resultVars, lastIn, snap, batchVars, evalVars, workerVars>>

setT2Signal(v) ==
  /\ CanEdit
  /\ v # t2Signal
  /\ t2Signal' = v
  /\ edits' = edits + 1
  /\ UNCHANGED <<age, sex, mjoa, duration, levels, canalRatio, opll, t1Hypo, smoker>>
  /\ UNCHANGED <<activeTab, resultVars, lastIn, snap, batchVars, evalVars, workerVars>>

setLevels(v) ==
  /\ CanEdit
  /\ v # levels
  /\ levels' = v
  /\ edits' = edits + 1
  /\ UNCHANGED <<age, sex, mjoa, duration, t2Signal, canalRatio, opll, t1Hypo, smoker>>
  /\ UNCHANGED <<activeTab, resultVars, lastIn, snap, batchVars, evalVars, workerVars>>

setCanalRatio(v) ==
  /\ CanEdit
  /\ v # canalRatio
  /\ canalRatio' = v
  /\ edits' = edits + 1
  /\ UNCHANGED <<age, sex, mjoa, duration, t2Signal, levels, opll, t1Hypo, smoker>>
  /\ UNCHANGED <<activeTab, resultVars, lastIn, snap, batchVars, evalVars, workerVars>>

setOpll(v) ==
  /\ CanEdit
  /\ v # opll
  /\ opll' = v
  /\ edits' = edits + 1
  /\ UNCHANGED <<age, sex, mjoa, duration, t2Signal, levels, canalRatio, t1Hypo, smoker>>
  /\ UNCHANGED <<activeTab, resultVars, lastIn, snap, batchVars, evalVars, workerVars>>

setT1Hypo(v) ==
  /\ CanEdit
  /\ v # t1Hypo
  /\ t1Hypo' = v
  /\ edits' = edits + 1
  /\ UNCHANGED <<age, sex, mjoa, duration, t2Signal, levels, canalRatio, opll, smoker>>
  /\ UNCHANGED <<activeTab, resultVars, lastIn, snap, batchVars, evalVars, workerVars>>

setSmoker(v) ==
  /\ CanEdit
  /\ v # smoker
  /\ smoker' = v
  /\ edits' = edits + 1
  /\ UNCHANGED <<age, sex, mjoa, duration, t2Signal, levels, canalRatio, opll, t1Hypo>>
  /\ UNCHANGED <<activeTab, resultVars, lastIn, snap, batchVars, evalVars, workerVars>>

setBatchCsv(text) ==
  /\ CanEdit
  /\ text # batchCsv
  /\ batchCsv' = text
  /\ edits' = edits + 1
  /\ UNCHANGED <<batchSummary, batchError, bpc, rows, r, summary>>
  /\ UNCHANGED <<activeTab, formVars, resultVars, lastIn, snap, evalVars, workerVars>>

\* the template literal of surgerySummary
SummaryText(inp, sx, mNum, dSev) ==
  "Age " \o ToString(inp.age) \o ", " \o sx \o ", mJOA " \o ToString(mNum)
    \o " (" \o dSev \o "), symptom duration ~ " \o ToString(inp.durationMonths)
    \o " months, planned levels " \o ToString(inp.levels) \o "."

\* history: one earlier run is remembered with its inputs and results,
\* whether it has been repeated on the same inputs since (again) and whether
\* a run on other inputs came in between (others)
NextSnap(inp, results) ==
  IF snap = <<>>
  THEN {<<>>, <<[in |-> inp, out |-> results, again |-> FALSE, others |-> FALSE]>>}
  ELSE IF snap[1].in = inp
  THEN {<<[snap[1] EXCEPT !.again = TRUE]>>}
  ELSE {<<[snap[1] EXCEPT !.others = TRUE]>>}

runSingleRecommendationStaleSeverity ==
  /\ bpc = "idle"
  /\ \E mNum \in {NumberOr(mjoa, 18)} :
       \E dSev \in {deriveSeverityFromMJOA(mNum)} :
         \E inp \in {[age |-> NumberOr(age, 65), sex |-> sex, severity |-> dSev,
                       mjoa |-> mNum, durationMonths |-> NumberOr(duration, 0),
                       t2Signal |-> t2Signal, levels |-> NumberOr(levels, 1),
                       canalRatio |-> canalRatio, opll |-> opll,
                       t1Hypo |-> t1Hypo, smoker |-> smoker]} :
           \E rgv \in {classifyRiskGroup(inp, severity)} :
             \E ap \in {approachMCIDAdjustments(inp, severity,
                           baselineMCIDBySeverity(severity))} :
               \E rbv \in {estimateRiskBenefit(inp, severity)} :
                 /\ severity' = dSev
                 /\ surgeryLabel' = rgv.label
                 /\ riskBand' = rgv.risk
                 /\ benefitBand' = rgv.benefit
                 /\ surgerySummary' = SummaryText(inp, sex, mNum, dSev)
                 /\ approachResult' = <<ap>>
                 /\ uncertaintyLevel' = computeUncertaintyLevel(ap)
                 /\ riskScore' = <<rbv.riskScore>>
                 /\ benefitScore' = <<rbv.benefitScore>>
                 /\ hasRun' = TRUE
                 /\ lastIn' = <<inp>>
                 /\ snap' \in NextSnap(inp, resultVars')
  /\ UNCHANGED <<activeTab, formVars, edits, batchVars, evalVars, workerVars>>

\* variant: the summary text is written with the severity of the state, which
\* within the handler is still that of the previous render
runSingleRecommendationSummaryFromState ==
  /\ bpc = "idle"
  /\ \E mNum \in {NumberOr(mjoa, 18)} :
       \E dSev \in {deriveSeverityFromMJOA(mNum)} :
         \E inp \in {[age |-> NumberOr(age, 65), sex |-> sex, severity |-> dSev,
                       mjoa |-> mNum, durationMonths |-> NumberOr(duration, 0),
                       t2Signal |-> t2Signal, levels |-> NumberOr(levels, 1),
                       canalRatio |-> canalRatio, opll |-> opll,
                       t1Hypo |-> t1Hypo, smoker |-> smoker]} :
           \E rgv \in {classifyRiskGroup(inp, dSev)} :
             \E ap \in {approachMCIDAdjustments(inp, dSev,
                           baselineMCIDBySeverity(dSev))} :
               \E rbv \in {estimateRiskBenefit(inp, dSev)} :
                 /\ severity' = dSev
                 /\ surgeryLabel' = rgv.label
                 /\ riskBand' = rgv.risk
                 /\ benefitBand' = rgv.benefit
                 /\ surgerySummary' = SummaryText(inp, sex, mNum, severity)
                 /\ approachResult' = <<ap>>
                 /\ uncertaintyLevel' = computeUncertaintyLevel(ap)
                 /\ riskScore' = <<rbv.riskScore>>
                 /\ benefitScore' = <<rbv.benefitScore>>
                 /\ hasRun' = TRUE
                 /\ lastIn' = <<inp>>
                 /\ snap' \in NextSnap(inp, resultVars')
  /\ UNCHANGED <<activeTab, formVars, edits, batchVars, evalVars, workerVars>>

runSingleRecommendation ==
  /\ bpc = "idle"
  /\ \E mNum \in {NumberOr(mjoa, 18)} :
       \E dSev \in {deriveSeverityFromMJOA(mNum)} :
         \E inp \in {[age |-> NumberOr(age, 65), sex |-> sex, severity |-> dSev,
                       mjoa |-> mNum, durationMonths |-> NumberOr(duration, 0),
                       t2Signal |-> t2Signal, levels |-> NumberOr(levels, 1),
                       canalRatio |-> canalRatio, opll |-> opll,
                       t1Hypo |-> t1Hypo, smoker |-> smoker]} :
           \E rgv \in {classifyRiskGroup(inp, dSev)} :
             \E ap \in {approachMCIDAdjustments(inp, dSev,
                           baselineMCIDBySeverity(dSev))} :
               \E rbv \in {estimateRiskBenefit(inp, dSev)} :
                 /\ severity' = dSev
                 /\ surgeryLabel' = rgv.label
                 /\ riskBand' = rgv.risk
                 /\ benefitBand' = rgv.benefit
                 /\ surgerySummary' = SummaryText(inp, sex, mNum, dSev)
                 /\ approachResult' = <<ap>>
                 /\ uncertaintyLevel' = computeUncertaintyLevel(ap)
                 /\ riskScore' = <<rbv.riskScore>>
                 /\ benefitScore' = <<rbv.benefitScore>>
                 /\ hasRun' = TRUE
                 /\ lastIn' = <<inp>>
                 /\ snap' \in NextSnap(inp, resultVars')
  /\ UNCHANGED <<activeTab, formVars, edits, batchVars, evalVars, workerVars>>

\* const bestApproach = approachResult && Object.entries(...).sort(...)[0][0]
bestApproach ==
  IF approachResult = <<>> THEN <<>> ELSE <<BestOf(approachResult[1])>>

\* the severity line of the render (the dashes and the sign of the source
\* texts are written in ASCII)
severityDisplay ==
  IF severity = "mild" THEN "Mild (mJOA 15-17)"
  ELSE IF severity = "moderate" THEN "Moderate (mJOA 12-14)"
  ELSE "Severe (mJOA <=11)"

Init ==
  /\ EvalIdle
  /\ batchCsv = <<>>
  /\ BatchIdle
  /\ UiInit
  /\ WorkersIdle

Next ==
  \/ \E tab \in Tabs : setActiveTab(tab)
  \/ \E v \in AgeTexts : setAge(v)
  \/ \E v \in Sexes : setSex(v)
  \/ \E v \in MjoaTexts : setMjoa(v)
  \/ \E v \in DurationTexts : setDuration(v)
  \/ \E v \in T2Signals : setT2Signal(v)
  \/ \E v \in LevelsTexts : setLevels(v)
  \/ \E v \in CanalRatios : setCanalRatio(v)
  \/ \E v \in YesNo : setOpll(v)
  \/ \E v \in YesNo : setT1Hypo(v)
  \/ \E v \in YesNo : setSmoker(v)
  \/ \E text \in UiBatchTexts : setBatchCsv(text)
  \/ runSingleRecommendation
  \/ handleBatchRun
  \/ BatchLoopRow
  \/ BatchLoopEnd

Spec == Init /\ [][Next]_vars

(***************************************************************************)
(* Properties of the evaluators, checked under SpecEval.                   *)
(***************************************************************************)
SeverityRank(s) == IF s = "mild" THEN 0 ELSE IF s = "moderate" THEN 1 ELSE 2

\* C1: for every integer mjoa in 0..18 the derived severity is exactly one of
\* mild (mjoa >= 15), moderate (12 <= mjoa < 15), severe (mjoa < 12), and a
\* higher mjoa never has a higher (more severe) rank than a lower one.
C1_SeverityBands ==
  pc # "severity" =>
    /\ derivedSeverity \in Severities
    /\ (derivedSeverity = "mild") <=> (patient.mjoa >= 15)
    /\ (derivedSeverity = "moderate") <=> (12 <= patient.mjoa /\ patient.mjoa < 15)
    /\ (derivedSeverity = "severe") <=> (patient.mjoa < 12)
    /\ \A m \in 0..MaxMJOA :
         /\ m <= patient.mjoa =>
              SeverityRank(derivedSeverity) <= SeverityRank(deriveSeverityFromMJOA(m))
         /\ m >= patient.mjoa =>
              SeverityRank(deriveSeverityFromMJOA(m)) <= SeverityRank(derivedSeverity)

C1_Witness == pc = "riskGroup" /\ patient.mjoa = 15 /\ derivedSeverity = "mild"

\* C2: for every patient record the returned riskScore lies in [5,95] and the
\* returned benefitScore in [10,95].
C2_ScoreBounds ==
  pc = "done" =>
    /\ rb.riskScore \in 5..95
    /\ rb.benefitScore \in 10..95

C2_Witness ==
  /\ pc = "done"
  /\ derivedSeverity = "severe"
  /\ patient.durationMonths >= 12
  /\ patient.t2Signal = "multilevel"
  /\ patient.canalRatio = ">60%"
  /\ patient.opll = "yes"
  /\ rb.riskScore = 83

\* C3: each of the three approach probabilities lies in [0.25, 0.90]
\* (compared as doubles with the doubles written 0.25 and 0.9).
C3_ProbabilityBounds ==
  pc \in {"uncertainty", "riskBenefit", "done"} =>
    \A i \in 1..Len(ApproachKeys) :
      /\ DGeq(appr[ApproachKeys[i]], Lit[25])
      /\ DGeq(Lit[90], appr[ApproachKeys[i]])

C3_Witness ==
  /\ pc = "done"
  /\ derivedSeverity = "mild"
  /\ patient.opll = "yes"
  /\ patient.canalRatio = ">60%"
  /\ DLt(Lit[65], appr.anterior)
  /\ DLt(appr.circumferential, Lit[65])

CordSignal(p) == p.t2Signal # "none"
LongSymptoms(p) == p.durationMonths >= 6
HighCanal(p) == p.canalRatio = ">60%"
Multilevel(p) == p.levels >= 3
Rule1(p, sev) ==
  /\ sev \in {"moderate", "severe"}
  /\ CordSignal(p) \/ LongSymptoms(p) \/ HighCanal(p) \/ Multilevel(p)

\* C6: the label is "Surgery recommended" if and only if severity is moderate
\* or severe and at least one of cordSignal, longSymptoms, highCanal,
\* multilevel holds.
C6_SurgeryRecommendedIff ==
  pc \notin {"severity", "riskGroup"} =>
    ((rg.label = LabelSurgery) <=> Rule1(patient, derivedSeverity))

C6_Witness ==
  /\ pc = "approach"
  /\ rg.label = LabelSurgery
  /\ derivedSeverity = "moderate"
  /\ Multilevel(patient)
  /\ ~CordSignal(patient) /\ ~LongSymptoms(patient) /\ ~HighCanal(patient)

\* C7 as stated: a mild record is labelled "Consider surgery" if and only if
\* cordSignal or longSymptoms holds, and every record matched by neither rule
\* is labelled "Non-operative trial".
C7_ConsiderIffCordOrLong ==
  pc \notin {"severity", "riskGroup"} =>
    /\ derivedSeverity = "mild" =>
         ((rg.label = LabelConsider) <=> (CordSignal(patient) \/ LongSymptoms(patient)))
    /\ (/\ ~Rule1(patient, derivedSeverity)
        /\ ~(derivedSeverity = "mild" /\ (CordSignal(patient) \/ LongSymptoms(patient))))
         => rg.label = LabelNonOp

\* C7 amended: a mild record is labelled "Consider surgery" if and only if
\* cordSignal or longSymptoms or highCanal holds, and every record matched by
\* neither rule 1 nor this rule is labelled "Non-operative trial".
C7_ConsiderIffCordLongOrHighCanal ==
  pc \notin {"severity", "riskGroup"} =>
    /\ derivedSeverity = "mild" =>
         ((rg.label = LabelConsider) <=>
            (CordSignal(patient) \/ LongSymptoms(patient) \/ HighCanal(patient)))
    /\ (/\ ~Rule1(patient, derivedSeverity)
        /\ ~(/\ derivedSeverity = "mild"
             /\ (CordSignal(patient) \/ LongSymptoms(patient) \/ HighCanal(patient))))
         => rg.label = LabelNonOp

C7_Witness ==
  /\ pc = "approach"
  /\ derivedSeverity = "mild"
  /\ HighCanal(patient) /\ ~CordSignal(patient) /\ ~LongSymptoms(patient)
  /\ rg.label = LabelConsider

\* C8: "Non-operative trial reasonable" is produced only for records whose
\* derived severity is mild.
C8_NonOpOnlyForMild ==
  pc \notin {"severity", "riskGroup"} =>
    (rg.label = LabelNonOp => derivedSeverity = "mild")

\* C9: the scores equal the reference table: a base by severity plus the
\* duration, T2, canal and OPLL adjustments, applied whatever the severity.
C9_ReferenceTable ==
  pc = "done" =>
    LET d == patient.durationMonths
        baseR == CASE derivedSeverity = "mild" -> 20
                   [] derivedSeverity = "moderate" -> 40
                   [] derivedSeverity = "severe" -> 60
        baseB == CASE derivedSeverity = "mild" -> 40
                   [] derivedSeverity = "moderate" -> 65
                   [] derivedSeverity = "severe" -> 80
        durR == CASE d >= 12 -> 5 [] d < 3 -> -3 [] 3 <= d /\ d < 12 -> 0
        durB == CASE d >= 12 -> 3 [] d < 3 -> 2 [] 3 <= d /\ d < 12 -> 0
        t2R == CASE patient.t2Signal = "bright" -> 5
                 [] patient.t2Signal = "multilevel" -> 10
                 [] patient.t2Signal = "none" -> 0
        t2B == CASE patient.t2Signal = "bright" -> 3
                 [] patient.t2Signal = "multilevel" -> 5
                 [] patient.t2Signal = "none" -> 0
        canalR == IF patient.canalRatio = ">60%" THEN 5 ELSE 0
        canalB == IF patient.canalRatio = ">60%" THEN 3 ELSE 0
        opllR == IF patient.opll = "yes" THEN 3 ELSE 0
        opllB == IF patient.opll = "yes" THEN 2 ELSE 0
    IN  /\ rb.riskScore = baseR + durR + t2R + canalR + opllR
        /\ rb.benefitScore = baseB + durB + t2B + canalB + opllB

C9_Witness ==
  /\ pc = "done"
  /\ derivedSeverity = "mild"
  /\ patient.durationMonths = 2
  /\ patient.t2Signal = "multilevel"
  /\ patient.canalRatio = ">60%"
  /\ patient.opll = "yes"
  /\ rb = [riskScore |-> 35, benefitScore |-> 52]

\* C10: the unclamped additive sums already lie inside the clamp bounds, so
\* the final clamp changes neither score.
C10_ClampNeverBinds ==
  pc = "done" =>
    LET s == RiskBenefitSums(inputs, derivedSeverity)
    IN  /\ s.risk \in 5..95
        /\ s.benefit \in 10..95
        /\ rb.riskScore = s.risk
        /\ rb.benefitScore = s.benefit

C10_Witness ==
  /\ pc = "done"
  /\ derivedSeverity = "severe"
  /\ patient.durationMonths >= 12
  /\ patient.t2Signal = "multilevel"
  /\ patient.canalRatio = ">60%"
  /\ patient.opll = "yes"
  /\ rb.benefitScore = 93

\* the rule stack: the deltas of one approach key in hundredths, in the fixed
\* order of the six adjustments, 0 where an adjustment does not fire or leaves
\* the key alone
RuleStackDeltas(p, sev, k) ==
  LET fires1 == sev = "mild" /\ p.opll # "yes" /\ ~Multilevel(p) /\ ~HighCanal(p)
      fires2 == Multilevel(p) \/ p.durationMonths >= 12
      fires4 == p.t2Signal = "multilevel"
      fires5 == LongSymptoms(p) /\ p.opll # "yes" /\ sev \in {"moderate", "severe"}
      fires6 == p.age >= 75 \/ p.smoker = "yes" \/ p.t1Hypo = "yes" \/ CordSignal(p)
      band == IF p.opll # "yes" THEN "none"
              ELSE IF HighCanal(p) THEN "high"
              ELSE IF p.canalRatio = "50-60%" THEN "mid" ELSE "low"
      on(c, h) == IF c THEN h ELSE 0
  IN  CASE k = "anterior" ->
             <<on(fires1, 5), on(fires2, -2),
               CASE band = "high" -> 10 [] band = "mid" -> 3
                 [] band = "low" -> 2 [] band = "none" -> 0,
               on(fires4, -1), on(fires5, -1), on(fires6, -3)>>
        [] k = "posterior" ->
             <<0, on(fires2, 5),
               CASE band = "high" -> 3 [] band = "mid" -> 3
                 [] band = "low" -> 5 [] band = "none" -> 0,
               on(fires4, 3), on(fires5, -1), on(fires6, -3)>>
        [] k = "circumferential" ->
             <<on(fires1, -2), on(fires2, 2), 0, on(fires4, 1), 0, on(fires6, -3)>>

RECURSIVE ApplyDeltas(_, _, _)
ApplyDeltas(x, ds, i) ==
  IF i > Len(ds) THEN x ELSE ApplyDeltas(Adjust(x, ds[i]), ds, i + 1)

RuleStackStart(sev, k) ==
  LET base == CASE sev = "mild" -> Lit[65] [] sev = "moderate" -> Lit[55]
                [] sev = "severe" -> Lit[45]
  IN  IF k = "circumferential" THEN Adjust(base, -3) ELSE base

RuleStackValue(p, sev, k) ==
  Only({IF DLt(x, Lit[25]) THEN Lit[25] ELSE IF DLt(Lit[90], x) THEN Lit[90] ELSE x :
          x \in {ApplyDeltas(v[1], v[2], 1) :
                   v \in {<<RuleStackStart(sev, k), RuleStackDeltas(p, sev, k)>>}}})

\* C11: for every record, each approach probability equals the rule stack:
\* start at the base of the severity (circumferential at base - 0.03), add the
\* deltas of the six independently conditioned adjustments that fire, in
\* order, then clamp to [0.25, 0.9].
C11_RuleStack ==
  pc = "uncertainty" =>
    \A k \in {"anterior", "posterior", "circumferential"} :
      appr[k] = RuleStackValue(patient, derivedSeverity, k)

\* several adjustments fire for one record: 2, 3 (high canal), 4 and 6
C11_Witness ==
  /\ pc = "uncertainty"
  /\ derivedSeverity = "severe"
  /\ Multilevel(patient)
  /\ patient.opll = "yes"
  /\ HighCanal(patient)
  /\ patient.t2Signal = "multilevel"
  /\ patient.durationMonths >= 6
  /\ appr.anterior = RuleStackValue(patient, derivedSeverity, "anterior")
  /\ DLt(Lit[45], appr.anterior)

\* the double written 0.52
Prob052 == <<272629, 796917, 796928>>

SevereOpllHighCanal ==
  /\ pc = "uncertainty"
  /\ derivedSeverity = "severe"
  /\ patient.opll = "yes"
  /\ HighCanal(patient)

\* C12 as stated: for every record with severity severe, OPLL and canal
\* ratio >60%, whatever the other fields, the anterior probability is at
\* least 0.52 and strictly higher than the posterior probability.
C12_OpllHighCanalAnteriorAlways ==
  SevereOpllHighCanal =>
    /\ DGeq(appr.anterior, Prob052)
    /\ DLt(appr.posterior, appr.anterior)

\* C12 amended: for a record with severity severe, OPLL and canal ratio >60%,
\* the anterior probability is strictly higher than the posterior one exactly
\* when adjustment 2 does not fire (levels < 3 and duration < 12 months), and
\* it is at least 0.52 when in addition the T2 signal is not multilevel.
C12_OpllHighCanalAnteriorUnlessMultilevel ==
  SevereOpllHighCanal =>
    LET fires2 == Multilevel(patient) \/ patient.durationMonths >= 12
    IN  /\ DLt(appr.posterior, appr.anterior) <=> ~fires2
        /\ (~fires2 /\ patient.t2Signal # "multilevel") =>
              DGeq(appr.anterior, Prob052)

C12_Witness ==
  /\ SevereOpllHighCanal
  /\ ~Multilevel(patient)
  /\ patient.durationMonths < 12
  /\ patient.t2Signal = "bright"
  /\ appr.anterior = Prob052
  /\ DLt(appr.posterior, appr.anterior)

(***************************************************************************)
(* Properties of computeUncertaintyLevel, checked under SpecUncertainty.   *)
(***************************************************************************)
\* the tier of a three-entry mapping m by the rule: some key k1 holds a value
\* no smaller than the others, some other key k2 holds a value no smaller
\* than the third, and the tier is read off the exact difference m[k1] - m[k2]
TierByRule(m) ==
  LET keys == {"anterior", "posterior", "circumferential"}
      k1 == CHOOSE k \in keys : \A j \in keys : DGeq(m[k], m[j])
      k2 == CHOOSE k \in keys \ {k1} : \A j \in keys \ {k1} : DGeq(m[k], m[j])
      delta == ExactDiff(m[k1], m[k2])
  IN  IF DGeq(delta, Lit[15]) THEN "low"
      ELSE IF DGeq(delta, Lit[8]) /\ DLt(delta, Lit[15]) THEN "moderate"
      ELSE "high"

\* the mappings that hold the values of m under some other assignment to keys
Rearranged(m) ==
  {[k \in DOMAIN m |-> m[f[k]]] :
     f \in {g \in [DOMAIN m -> DOMAIN m] : \A k \in DOMAIN m : \E j \in DOMAIN m : g[j] = k}}

ThreeEntries == DOMAIN appr = {"anterior", "posterior", "circumferential"}

\* C13: for a three-entry mapping the tier is low iff largest - second
\* largest >= 0.15, moderate iff 0.08 <= that delta < 0.15, high otherwise,
\* and every assignment of the same values to the keys gives the same tier.
C13_UncertaintyTiers ==
  (pc = "riskBenefit" /\ ThreeEntries) =>
    /\ unc = TierByRule(appr)
    /\ \A m \in Rearranged(appr) : computeUncertaintyLevel(m) = unc

\* a delta just above 0.15 held by the last two keys, and one just below
C13_Witness ==
  /\ pc = "riskBenefit"
  /\ ThreeEntries
  /\ unc = "low"
  /\ appr.anterior = Lit[25]
  /\ appr.posterior = Lit[25]
  /\ appr.circumferential = Adjust(Lit[25], 15)
  /\ computeUncertaintyLevel(
        [appr EXCEPT !.circumferential = PrevDouble(Adjust(Lit[25], 15))]) = "moderate"

\* C14: given a mapping with fewer than two entries, computeUncertaintyLevel
\* signals a usage error: it returns none of the tiers low, moderate, high.
C14_FewerThanTwoIsUsageError ==
  (pc = "riskBenefit" /\ Cardinality(DOMAIN appr) < 2) =>
    unc \notin {"low", "moderate", "high"}

(***************************************************************************)
(* Properties of handleBatchRun, checked under SpecBatch.                  *)
(***************************************************************************)
Conserved(s) ==
  /\ s.surgeryRecommended + s.consider + s.nonOp = s.total
  /\ s.anterior + s.posterior + s.circumferential = s.total

\* C4: after every iteration of the batch loop, and in every published
\* BatchSummary, the three label counters sum to total and the three approach
\* counters sum to total.
C4_BatchConservation ==
  /\ bpc = "loop" => Conserved(summary)
  /\ batchSummary # <<>> => Conserved(batchSummary[1])

C4_Witness ==
  /\ batchSummary # <<>>
  /\ batchSummary[1].total = 3
  /\ batchSummary[1].surgeryRecommended = 1
  /\ batchSummary[1].consider = 1
  /\ batchSummary[1].nonOp = 1
  /\ batchSummary[1].anterior > 0
  /\ batchSummary[1].posterior > 0

\* the sequences that hold the elements of q in some order
Reorderings(q) ==
  {[i \in 1..Len(q) |-> q[f[i]]] :
     f \in {g \in [1..Len(q) -> 1..Len(q)] :
              \A i \in 1..Len(q) : \E j \in 1..Len(q) : g[j] = i}}

\* C16: the BatchSummary published for a sequence of records equals the
\* summary of the loop run over every permutation of the sequence (all seven
\* counters).
C16_PermutationInvariance ==
  batchSummary # <<>> =>
    \A q \in Reorderings(OutcomesOf(batchCsv)) :
      RunRows(q, 1, ZeroSummary) = batchSummary[1]

\* three rows with three different labels, two different winning approaches
C16_Witness ==
  /\ batchSummary # <<>>
  /\ batchSummary[1].total = 3
  /\ batchSummary[1].surgeryRecommended = 1
  /\ batchSummary[1].consider = 1
  /\ batchSummary[1].nonOp = 1
  /\ batchSummary[1].anterior = 2
  /\ batchSummary[1].posterior = 1
  /\ Len(OutcomesOf(batchCsv)) = 3

\* the rows of the pasted text after the header row
DataRowsOf(text) ==
  Only({SubSeq(rws, 2, Len(rws)) : rws \in {ParseRows(Trim(text))}})

\* the row has at least one non-empty cell
HasNonEmptyCell(row) == \E j \in 1..Len(row) : row[j] # <<>>

\* C19: a BatchSummary is published only for an input with at least one
\* data row that is not blank: an input whose lines after the header are all
\* blank (only commas and white space) gives an error and no BatchSummary,
\* and no BatchSummary with total = 0 is ever published.
C19_NoEmptySummary ==
  batchSummary # <<>> =>
    /\ batchSummary[1].total > 0
    /\ \E q \in {DataRowsOf(batchCsv)} : \E i \in 1..Len(q) : HasNonEmptyCell(q[i])

\* C20: blank data rows are skipped: an iteration on a row without a
\* non-empty cell changes no counter, an iteration on any other row adds one
\* to total, and the total of a published BatchSummary is the number of data
\* rows with at least one non-empty cell.
C20_BlankRowsSkipped ==
  /\ [](batchSummary # <<>> =>
          \E q \in {DataRowsOf(batchCsv)} :
            batchSummary[1].total =
              Cardinality({i \in 1..Len(q) : HasNonEmptyCell(q[i])}))
  /\ [][(bpc = "loop" /\ r <= Len(rows)) =>
          IF HasNonEmptyCell(rows[r])
          THEN summary'.total = summary.total + 1
          ELSE summary' = summary]_vars

\* three data rows, the second blank, two counted
C20_Witness ==
  /\ batchSummary # <<>>
  /\ batchSummary[1].total = 2
  /\ \E q \in {DataRowsOf(batchCsv)} :
       /\ Len(q) = 3
       /\ HasNonEmptyCell(q[1])
       /\ ~HasNonEmptyCell(q[2])
       /\ Len(q[2]) = 4
       /\ HasNonEmptyCell(q[3])

(***************************************************************************)
(* Properties of the divided batch, checked under SpecWorkers.             *)
(***************************************************************************)
\* the summary of the sequential row loop over the whole batch
SequentialSummary ==
  RunRows([i \in 1..Len(wholeRows) |-> RowOutcome(wholeRows[i], WorkerHeader)],
          1, ZeroSummary)

IsWinner(m, k) ==
  \E i \in 1..Len(ApproachKeys) :
    /\ ApproachKeys[i] = k
    /\ \A j \in 1..Len(ApproachKeys) : DGeq(m[k], m[ApproachKeys[j]])
    /\ \A j \in 1..(i - 1) : DLt(m[ApproachKeys[j]], m[k])

\* the probabilities of the data row at the head of the batch loop
RowAppr ==
  LET inp == BatchInputs(rows[r], HeaderOf(rows))
  IN  approachMCIDAdjustments(inp, inp.severity, baselineMCIDBySeverity(inp.severity))

\* C15: the approach shown as best in the single-patient view, and the
\* approach a batch row is counted for, holds the maximum probability and is
\* the first such approach in the order anterior, posterior, circumferential;
\* a counted row increments exactly one approach counter, by one.
C15_WinnerIsFirstMaximum ==
  /\ [](approachResult # <<>> =>
          \E best \in {bestApproach} :
            best # <<>> /\ IsWinner(approachResult[1], best[1]))
  /\ [][(bpc = "loop" /\ r <= Len(rows) /\ ~IsBlankRow(rows[r])) =>
          \E m \in {RowAppr} :
            \E k \in {"anterior", "posterior", "circumferential"} :
              /\ IsWinner(m, k)
              /\ summary'[k] = summary[k] + 1
              /\ \A j \in {"anterior", "posterior", "circumferential"} \ {k} :
                   summary'[j] = summary[j]]_vars

\* the batch loop has counted a row whose two largest probabilities are
\* equal for anterior, and the single-patient view shows a strict winner
C15_Witness ==
  /\ bpc = "loop"
  /\ r = 3
  /\ summary.anterior = 1
  /\ summary.posterior = 0
  /\ \E m \in {approachMCIDAdjustments(
                   BatchInputs(rows[2], HeaderOf(rows)), "moderate", Lit[55])} :
       m.anterior = m.posterior /\ DLt(m.circumferential, m.anterior)
  /\ bestApproach = <<"posterior">>

\* the pasted text has a header row, and some required column is not among
\* its lower-cased cells
LacksRequiredColumn(text) ==
  /\ text # <<>>
  /\ Trim(text) # <<>>
  /\ \E hdr \in {HeaderOf(ParseRows(Trim(text)))} :
       \E c \in {"age", "sex", "mjoa", "duration_months", "levels",
                 "canal_ratio", "t2_signal"} :
         \A j \in 1..Len(hdr) : hdr[j] # c

\* C18: when the header row lacks a required column, a handleBatchRun sets
\* batchError, enters no iteration of the row loop and leaves batchSummary
\* null, also when an earlier run had published a summary.
C18_MissingColumnRejectsBatch ==
  /\ []((batchError # <<>> /\ LacksRequiredColumn(batchCsv)) =>
          (batchSummary = <<>> /\ bpc = "idle"))
  /\ [][(/\ bpc = "idle"
          /\ <<batchError, batchSummary>>' # <<batchError, batchSummary>>
          /\ LacksRequiredColumn(batchCsv)) =>
            /\ batchError' # <<>>
            /\ batchSummary' = <<>>
            /\ bpc' = "idle"
            /\ UNCHANGED <<rows, r, summary>>]_vars

C18_Witness ==
  /\ LacksRequiredColumn(batchCsv)
  /\ Len(ParseRows(Trim(batchCsv))) = 2
  /\ batchError = <<ErrColumns>>
  /\ batchSummary = <<>>
  /\ bpc = "idle"
  /\ edits = 2

\* C5: running the pipeline again on an identical patient record, with any
\* other evaluations (single or batch) in between, gives identical severity,
\* label, texts, scores, probabilities and uncertainty tier: the results of a
\* run depend on nothing but its inputs, and a run leaves the inputs it was
\* given (the form) unchanged.
C5_Determinism ==
  /\ []((snap # <<>> /\ lastIn = <<snap[1].in>>) => resultVars = snap[1].out)
  /\ [][(lastIn' # lastIn \/ hasRun' # hasRun) => formVars' = formVars]_vars

C5_Witness ==
  /\ snap # <<>>
  /\ snap[1].again
  /\ snap[1].others
  /\ lastIn = <<snap[1].in>>
  /\ resultVars = snap[1].out

(***************************************************************************)
(* Claims on the parsing of the fields (SpecBatch).                        *)
(***************************************************************************)
\* the decimal numerals a cell or a form field may hold
DecimalNumerals == {ToString(n) : n \in 0..MaxNumeral}

\* the row the loop is about to evaluate
AtDataRow == bpc = "loop" /\ r <= Len(rows) /\ ~IsBlankRow(rows[r])

\* the text of the cell of the current row under a column of the header
CellUnder(col) == Join(CellToks(rows[r], IndexOf(HeaderOf(rows), col)))

\* C21: in the record the row loop hands to the evaluators, a numeric field
\* whose cell is no number holds its default (age 65, mjoa 18, durationMonths
\* 0, levels 1), a canal_ratio or t2_signal cell that is not a value of the
\* enum is replaced by "<50%" or "bright", and so t2Signal and canalRatio are
\* always values of their enums.
C21_ParseFallbacks ==
  AtDataRow =>
    \E inp \in {BatchInputs(rows[r], HeaderOf(rows))} :
      /\ CellUnder("age") \notin DecimalNumerals => inp.age = 65
      /\ CellUnder("mjoa") \notin DecimalNumerals => inp.mjoa = 18
      /\ CellUnder("duration_months") \notin DecimalNumerals =>
           inp.durationMonths = 0
      /\ CellUnder("levels") \notin DecimalNumerals => inp.levels = 1
      /\ CellUnder("t2_signal") \notin T2Signals => inp.t2Signal = "bright"
      /\ CellUnder("canal_ratio") \notin CanalRatios => inp.canalRatio = "<50%"
      /\ inp.t2Signal \in T2Signals
      /\ inp.canalRatio \in CanalRatios

\* C22: a cell of the mjoa column that holds an integer of 0..18 is the value
\* the row is evaluated on: the record holds that integer and the severity
\* derived from it (severe for 0); 18 stands in only for a cell that is
\* missing or no number.
C22_MjoaEvaluatedAsEntered ==
  AtDataRow =>
    \E inp \in {BatchInputs(rows[r], HeaderOf(rows))} :
      /\ \A n \in 0..18 :
           CellUnder("mjoa") = ToString(n) =>
             /\ inp.mjoa = n
             /\ inp.severity = (IF n >= 15 THEN "mild"
                                ELSE IF n >= 12 THEN "moderate" ELSE "severe")
      /\ CellUnder("mjoa") \notin DecimalNumerals => inp.mjoa = 18

(***************************************************************************)
(* The worked scenarios (SpecEval, SpecBatch).                             *)
(***************************************************************************)
\* the fields a scenario fixes; the others (age, opll, t1Hypo, smoker) are free
Scenario(p, m, d, t2, lv) ==
  /\ p.mjoa = m
  /\ p.durationMonths = d
  /\ p.t2Signal = t2
  /\ p.levels = lv
  /\ p.canalRatio = "<50%"

\* C23: (mjoa 13, duration 12, bright, 3 levels, canal <50%, no OPLL) is
\* moderate and "Surgery recommended"; (mjoa 16, duration 2, no signal, 1
\* level, canal <50%) is mild and "Non-operative trial reasonable ..."; (mjoa
\* 16, duration 8, bright, 1 level, canal <50%) is mild and "Consider surgery
\* ...".
C23_Scenarios ==
  pc \in {"approach", "uncertainty", "riskBenefit", "done"} =>
    /\ (Scenario(patient, 13, 12, "bright", 3) /\ patient.opll = "no") =>
         derivedSeverity = "moderate" /\ rg.label = "Surgery recommended"
    /\ Scenario(patient, 16, 2, "none", 1) =>
         /\ derivedSeverity = "mild"
         /\ rg.label =
              "Non-operative trial reasonable with close follow-up and structured surveillance."
    /\ Scenario(patient, 16, 8, "bright", 1) =>
         /\ derivedSeverity = "mild"
         /\ rg.label = "Consider surgery / surgery likely beneficial"

C23_Witness ==
  /\ pc = "done"
  /\ Scenario(patient, 16, 8, "bright", 1)
  /\ derivedSeverity = "mild"
  /\ rg.label = LabelConsider

\* the record of scenario 1 and the record of scenario 3
IsScenario1(p) == Scenario(p, 13, 12, "bright", 3) /\ p.opll = "no"
IsScenario3(p) == Scenario(p, 16, 8, "bright", 1)

\* the pasted text has exactly two data rows, rows i and j of the parsed text
\* being the records of scenario 1 and of scenario 3
TwoScenarioRows(text, i, j) ==
  \E rws \in {ParseRows(Trim(text))} :
    /\ Len(rws) = 3
    /\ \E hdr \in {HeaderOf(rws)} :
         /\ IsScenario1(BatchInputs(rws[i], hdr))
         /\ IsScenario3(BatchInputs(rws[j], hdr))

\* C24: the summary published for a batch of exactly two rows, one the record
\* of scenario 1 and one the record of scenario 3, in either order, has
\* total = 2, surgeryRecommended = 1, consider = 1 and nonOp = 0.
C24_TwoRowBatch ==
  (batchSummary # <<>>
     /\ (TwoScenarioRows(batchCsv, 2, 3) \/ TwoScenarioRows(batchCsv, 3, 2))) =>
    /\ batchSummary[1].total = 2
    /\ batchSummary[1].surgeryRecommended = 1
    /\ batchSummary[1].consider = 1
    /\ batchSummary[1].nonOp = 0

\* scenario 3 is the first data row and scenario 1 the second
C24_Witness ==
  /\ batchSummary # <<>>
  /\ TwoScenarioRows(batchCsv, 3, 2)
  /\ batchSummary[1].total = 2
  /\ batchSummary[1].surgeryRecommended = 1
  /\ batchSummary[1].consider = 1
  /\ batchSummary[1].nonOp = 0

(***************************************************************************)
(* The optional columns (SpecBatch).                                       *)
(***************************************************************************)
\* the spellings of yes
YesSpellings == {"yes", "Yes", "YES", "yEs", "yeS", "YEs", "yES", "YeS"}

\* C25: a batch whose header holds the seven required columns is not rejected
\* for its columns, with or without opll and smoker; the record of a row has
\* opll (smoker) = "yes" exactly when the header has the column and the cell
\* of the row under it is a spelling of yes, and "no" otherwise, in particular
\* when the column is absent or the cell is empty.
C25_OptionalColumns ==
  /\ batchError = <<ErrColumns>> => LacksRequiredColumn(batchCsv)
  /\ AtDataRow =>
       \E inp \in {BatchInputs(rows[r], HeaderOf(rows))} :
         /\ inp.opll \in YesNo
         /\ inp.smoker \in YesNo
         /\ inp.opll = "yes" <=> CellUnder("opll") \in YesSpellings
         /\ inp.smoker = "yes" <=> CellUnder("smoker") \in YesSpellings
         /\ (\A j \in 1..Len(rows[1]) : ToLowerCase(rows[1][j]) # "opll") =>
              inp.opll = "no"
         /\ (\A j \in 1..Len(rows[1]) : ToLowerCase(rows[1][j]) # "smoker") =>
              inp.smoker = "no"

\* a header with the column Opll and without smoker, a row whose cells under
\* both are YES and yes
C25_Witness ==
  /\ AtDataRow
  /\ batchError = <<>>
  /\ \A j \in 1..Len(rows[1]) : ToLowerCase(rows[1][j]) # "smoker"
  /\ CellUnder("opll") = "YES"
  /\ Len(rows[r]) = 9
  /\ Join(rows[r][9]) = "yes"
  /\ BatchInputs(rows[r], HeaderOf(rows)).opll = "yes"
  /\ BatchInputs(rows[r], HeaderOf(rows)).smoker = "no"

(***************************************************************************)
(* Properties of the engine's output that the code nowhere states          *)
(* (SpecEval).                                                             *)
(***************************************************************************)
\* C26: for every patient record the posterior probability returned by
\* approachMCIDAdjustments is strictly greater than the circumferential one:
\* circumferential is never the best approach, the loop body of the batch
\* leaves the circumferential counter where it was for the record, and the
\* counter is 0 in every running and every published summary.
C26_CircumferentialNeverWins ==
  /\ pc \in {"uncertainty", "riskBenefit", "done"} =>
       /\ DLt(appr.circumferential, appr.posterior)
       /\ appr.circumferential # appr.posterior
       /\ \E best \in {BestOf(appr)} :
            /\ best # "circumferential"
            /\ CountRow(ZeroSummary, rg.label, best).circumferential = 0
  /\ bpc = "loop" => summary.circumferential = 0
  /\ batchSummary # <<>> => batchSummary[1].circumferential = 0

\* a record for which the circumferential adjustments are the largest there
\* are: multilevel disease with a multilevel signal
C26_Witness ==
  /\ pc = "done"
  /\ patient.levels >= 3
  /\ patient.t2Signal = "multilevel"
  /\ patient.opll = "no"
  /\ patient.durationMonths >= 6
  /\ derivedSeverity = "severe"
  /\ DLt(appr.circumferential, appr.posterior)
  /\ BestOf(appr) = "posterior"

\* the difference of the two highest values of an approach mapping
TopGap(m) ==
  Only({DSub(vals[1], vals[2]) : vals \in {SortDesc(ObjectValues(m))}})

\* C27: for every patient record run through the pipeline the two highest
\* approach probabilities differ by less than 0.15, and the uncertainty tier
\* computed from them is moderate or high, never low.
C27_NeverLowUncertainty ==
  pc \in {"riskBenefit", "done"} =>
    /\ unc \in {"moderate", "high"}
    /\ \E gap \in {TopGap(appr)} :
         /\ DLt(gap, Lit[15])
         /\ ~DGeq(gap, Lit[15])

\* the widest gap: OPLL with a low canal ratio, three levels and a multilevel
\* signal put posterior 0.14 above anterior
C27_Witness ==
  /\ pc = "done"
  /\ patient.opll = "yes"
  /\ patient.canalRatio = "<50%"
  /\ patient.levels >= 3
  /\ patient.t2Signal = "multilevel"
  /\ unc = "moderate"
  /\ DGeq(TopGap(appr), Lit[10])
  /\ DLt(appr.anterior, appr.posterior)

(***************************************************************************)
(* Properties of the component state (Spec).                               *)
(***************************************************************************)
\* C28: batchError and batchSummary are never both non-null.  While a run is
\* in its row loop both are null; a run that stops at a check ends with the
\* error set and no summary, whatever an earlier run had published; a run
\* that leaves its loop ends with the summary set and no error.
C28_ErrorXorSummary ==
  /\ [](~(batchError # <<>> /\ batchSummary # <<>>))
  /\ [](bpc = "loop" => (batchError = <<>> /\ batchSummary = <<>>))
  /\ [][(bpc = "idle" /\ <<batchError, batchSummary, bpc>>' #
                           <<batchError, batchSummary, bpc>>) =>
          /\ batchSummary' = <<>>
          /\ (bpc' = "idle" /\ batchError' # <<>>)
               \/ (bpc' = "loop" /\ batchError' = <<>>)]_vars
  /\ [][(bpc = "loop" /\ bpc' = "idle") =>
          (batchSummary' # <<>> /\ batchError' = <<>>)]_vars

\* the text was emptied after an edit and a run on it has ended with the
\* error alone
C28_Witness ==
  /\ bpc = "idle"
  /\ edits = 2
  /\ batchCsv = <<>>
  /\ batchError = <<ErrNoText>>
  /\ batchSummary = <<>>

\* every displayed result is the one the evaluators give for the record inp
FromSnapshot(inp) ==
  \E dSev \in {deriveSeverityFromMJOA(inp.mjoa)} :
    /\ inp.severity = dSev
    /\ severity = dSev
    /\ \E rgv \in {classifyRiskGroup(inp, dSev)} :
         /\ surgeryLabel = rgv.label
         /\ riskBand = rgv.risk
         /\ benefitBand = rgv.benefit
    /\ surgerySummary = SummaryText(inp, inp.sex, inp.mjoa, dSev)
    /\ approachResult =
         <<approachMCIDAdjustments(inp, dSev, baselineMCIDBySeverity(dSev))>>
    /\ uncertaintyLevel = computeUncertaintyLevel(approachResult[1])
    /\ \E rbv \in {estimateRiskBenefit(inp, dSev)} :
         /\ riskScore = <<rbv.riskScore>>
         /\ benefitScore = <<rbv.benefitScore>>

\* C29: hasRun is false at the start and, once true, stays true; whenever it
\* is true, approachResult, riskScore and benefitScore are non-null,
\* uncertaintyLevel is a tier, and severity, label, texts, scores,
\* probabilities and tier are the results of one record: the inputs of the
\* last run.
C29_ResultsOfOneRun ==
  /\ ~hasRun
  /\ [][hasRun => hasRun']_vars
  /\ [](~hasRun => lastIn = <<>>)
  /\ [](hasRun =>
          /\ approachResult # <<>>
          /\ riskScore # <<>>
          /\ benefitScore # <<>>
          /\ uncertaintyLevel \in {"low", "moderate", "high"}
          /\ lastIn # <<>>
          /\ FromSnapshot(lastIn[1]))

\* a second run, on a form edited since the first, whose severity differs
\* from the initial one; the form has been edited again since
C29_Witness ==
  /\ hasRun
  /\ edits = 2
  /\ snap # <<>>
  /\ snap[1].others
  /\ severity = "mild"
  /\ lastIn # <<>>
  /\ lastIn[1].mjoa = 16
  /\ mjoa # "16"
  /\ FromSnapshot(lastIn[1])

\* the result state the claim lists
SingleResults ==
  <<severity, surgeryLabel, riskBand, benefitBand, riskScore, benefitScore,
    approachResult, uncertaintyLevel>>

\* the number the handler takes from the mJOA field
MjoaUsed ==
  IF \E n \in 1..MaxNumeral : mjoa = ToString(n)
  THEN CHOOSE n \in 1..MaxNumeral : mjoa = ToString(n)
  ELSE 18

\* the band text of a number
BandText(m) ==
  IF m >= 15 THEN "Mild (mJOA 15-17)"
  ELSE IF m >= 12 THEN "Moderate (mJOA 12-14)" ELSE "Severe (mJOA <=11)"

\* C30: a step that edits an input field, switches the tab, or belongs to a
\* batch run leaves severity, surgeryLabel, riskBand, benefitBand, riskScore,
\* benefitScore, approachResult and uncertaintyLevel (and hasRun and the
\* summary text) as they were; they change only in a step of
\* runSingleRecommendation, which leaves the form, the tab and the batch
\* state alone and after which severity, and the severity line shown, are
\* those of the number the run took from the mJOA field.
C30_ResultsChangeOnlyInRun ==
  /\ [][(formVars' # formVars \/ activeTab' # activeTab \/ batchVars' # batchVars)
          => (SingleResults' = SingleResults /\ resultVars' = resultVars)]_vars
  /\ [][(resultVars' # resultVars \/ lastIn' # lastIn) =>
          /\ UNCHANGED <<formVars, activeTab, batchVars>>
          /\ hasRun'
          /\ lastIn' # <<>>
          /\ lastIn'[1].mjoa = MjoaUsed
          /\ severity' = deriveSeverityFromMJOA(MjoaUsed)
          /\ severityDisplay' = BandText(MjoaUsed)]_vars
  /\ [](hasRun => severityDisplay = BandText(lastIn[1].mjoa))

\* results of a run on mJOA 16 stand while the field has been edited to a
\* text of another band, the tab switched and a batch run
C30_Witness ==
  /\ hasRun
  /\ lastIn[1].mjoa = 16
  /\ severity = "mild"
  /\ severityDisplay = "Mild (mJOA 15-17)"
  /\ mjoa = "13"
  /\ activeTab = "batch"
  /\ batchError = <<ErrNoText>>
  /\ edits = 2

====
